---- MODULE Spec2Model ----
(***************************************************************************)
(* Verification model of the HPL IDE: the sandbox runner                   *)
(* (ide/services/sandbox_executor.py, ide/utils/execution_utils.py,        *)
(* ide/utils/temp_manager.py, ide/routes/api.py) and the tree-walking      *)
(* evaluator (hpl_runtime/evaluator.py).                                   *)
(*                                                                         *)
(* Spec     : host and worker of one sandboxed execution, with a clock.    *)
(* EvalSpec : the evaluator run on a bounded family of programs.           *)
(***************************************************************************)
EXTENDS Integers, Sequences, FiniteSets, TLC

VARIABLES
    \* ---- sandbox runner ----
    entry,      \* API the host was entered through
    platform,   \* sys.platform of the host: "unix" or "win32"
    T,          \* the timeout argument, in seconds
    prog,       \* what the user program does in the worker
    hpc,        \* position of the host in its code
    now,        \* wall clock, in seconds
    startedAt,  \* clock value when the host API was called
    deadline,   \* clock value at which the pending join(timeout) gives up
    wpc,        \* position of the worker process
    limitsSet,  \* worker: _setup_resource_limits has completed
    queue,      \* result_queue: envelopes put by the worker, not yet read
    errq,       \* error_queue of execute_with_process_timeout
    tempDir,    \* "none", "exists" or "deleted"
    result,     \* what the host API handed back
    sigs,       \* history: signals sent to the worker
    \* ---- evaluator ----
    epc,        \* "ready" or "done"
    program,    \* the program under evaluation
    outcome     \* result of HPLEvaluator.run for it

sbVars == <<entry, platform, T, prog, hpc, now, startedAt, deadline, wpc,
            limitsSet, queue, errq, tempDir, result, sigs>>
evVars == <<epc, program, outcome>>
vars == <<sbVars, evVars>>

(***************************************************************************)
(* Bounds and program constants                                            *)
(***************************************************************************)
MaxTimeout == 2
TermGrace == 2
KillGrace == 1
MaxClock == MaxTimeout + TermGrace + KillGrace + 1

NoResult == [kind |-> "none"]

Envelope(ok, etype) == [kind |-> "envelope", success |-> ok, error_type |-> etype]
Raised(etype) == [kind |-> "raised", error_type |-> etype]

Entries == {"execute_code", "execute", "run_code", "process_timeout"}
RunOutcomes == {"ok", "langerr", "memerr", "exc", "crash", "loop"}

Programs ==
    [run : RunOutcomes, loads : BOOLEAN, limitsFail : BOOLEAN,
     ignoresTerm : BOOLEAN, big : BOOLEAN, fileExists : BOOLEAN]

(***************************************************************************)
(* Sandbox runner: initial state                                           *)
(***************************************************************************)
SbInit ==
    /\ entry \in Entries
    /\ platform \in {"unix", "win32"}
    /\ T \in 1..MaxTimeout
    /\ prog \in Programs
    /\ hpc = "idle"
    /\ now = 0
    /\ startedAt = 0
    /\ deadline = 0
    /\ wpc = "unstarted"
    /\ limitsSet = FALSE
    /\ queue = <<>>
    /\ errq = <<>>
    /\ tempDir = "none"
    /\ result = NoResult
    /\ sigs = <<>>

EvIdle ==
    /\ epc = "off"
    /\ program = <<>>
    /\ outcome = NoResult

UsesTempDir == entry \in {"execute_code", "run_code"}
Alive == wpc \notin {"unstarted", "exited"}
Joins == {"join_T", "join_2", "join_1", "except_join"}

\* process.join(timeout) with the timeout running out at clock value d: it
\* returns when the worker has exited or the timeout has run out.
JoinForever(d) == ~Alive
JoinDone(d) == ~Alive \/ now >= d

\* After process.join(2): if process.is_alive() the worker is killed.
AlwaysKill == "kill"
AfterGrace == IF Alive THEN "kill" ELSE "timeout_ret"

\* The host API hands r back (or raises r) without the cleanup on a raise.
ReturnNoFinally(r) ==
    /\ result' = r
    /\ hpc' = IF UsesTempDir /\ r.kind # "raised" THEN "finally" ELSE "done"

\* The host API hands r back: through the finally / context-manager exit when
\* a temporary directory is in use, directly otherwise.
Return(r) ==
    /\ result' = r
    /\ hpc' = IF UsesTempDir THEN "finally" ELSE "done"

(***************************************************************************)
(* Host                                                                    *)
(***************************************************************************)
\* execute_code: tempfile.mkdtemp before the try; run_code: create_temp_dir
\* inside the try of temp_directory; execute / execute_with_process_timeout
\* are entered with a path.
Call ==
    /\ hpc = "idle"
    /\ startedAt' = now
    /\ IF UsesTempDir
       THEN \/ /\ tempDir' = "exists"
               /\ hpc' = "copy"
               /\ UNCHANGED result
            \/ /\ tempDir' = "none"
               /\ hpc' = IF entry = "run_code" THEN "finally" ELSE "done"
               /\ result' = Raised("OSError")
       ELSE /\ hpc' = "exists_check"
            /\ UNCHANGED <<tempDir, result>>
    /\ UNCHANGED <<entry, platform, T, prog, now, deadline, wpc, limitsSet,
                   queue, errq, sigs, evVars>>

\* copy_include_files(code, temp_dir, ...): completes or raises.
CopyIncludes ==
    /\ hpc = "copy"
    /\ \/ hpc' = "write" /\ UNCHANGED result
       \/ Return(Raised("Exception"))
    /\ UNCHANGED <<entry, platform, T, prog, now, startedAt, deadline, wpc,
                   limitsSet, queue, errq, tempDir, sigs, evVars>>

\* with open(temp_file, 'w') as f: f.write(code): completes or raises.
WriteSource ==
    /\ hpc = "write"
    /\ \/ hpc' = "exists_check" /\ UNCHANGED result
       \/ Return(Raised("OSError"))
    /\ UNCHANGED <<entry, platform, T, prog, now, startedAt, deadline, wpc,
                   limitsSet, queue, errq, tempDir, sigs, evVars>>

\* The head of execute: os.path.exists, then the win32 fallback, which calls
\* execute_with_process_timeout with an input_data keyword that function
\* does not take.
ExistsCheck ==
    /\ hpc = "exists_check"
    /\ IF ~(UsesTempDir \/ prog.fileExists)
       THEN Return(Envelope(FALSE, IF entry = "process_timeout" THEN "none"
                                   ELSE "FileNotFoundError"))
       ELSE IF entry # "process_timeout" /\ platform = "win32"
       THEN Return(Raised("TypeError"))
       ELSE hpc' = "start" /\ UNCHANGED result
    /\ UNCHANGED <<entry, platform, T, prog, now, startedAt, deadline, wpc,
                   limitsSet, queue, errq, tempDir, sigs, evVars>>

\* process.start(), then process.join(timeout) begins.
Start ==
    /\ hpc = "start"
    /\ \/ /\ wpc' = IF entry = "process_timeout" THEN "load" ELSE "limits"
          /\ hpc' = "join_T"
          /\ deadline' = now + T
       \/ /\ hpc' = "except"
          /\ UNCHANGED <<wpc, deadline>>
    /\ UNCHANGED <<entry, platform, T, prog, now, startedAt, limitsSet,
                   queue, errq, tempDir, result, sigs, evVars>>

\* process.join(timeout) returns when the worker has exited or the timeout
\* has run out; then if process.is_alive().
JoinTimeout ==
    /\ hpc = "join_T"
    /\ JoinDone(deadline)
    /\ hpc' = IF Alive THEN "terminate" ELSE "read"
    /\ UNCHANGED <<entry, platform, T, prog, now, startedAt, deadline, wpc,
                   limitsSet, queue, errq, tempDir, result, sigs, evVars>>

\* process.terminate(): SIGTERM ends the worker unless user code ignores it;
\* then process.join(2) begins.
Terminate ==
    /\ hpc = "terminate"
    /\ sigs' = Append(sigs, [sig |-> "TERM", at |-> now, alive |-> Alive, why |-> "timeout"])
    /\ wpc' = IF wpc = "run" /\ prog.ignoresTerm THEN wpc ELSE "exited"
    /\ hpc' = "join_2"
    /\ deadline' = now + TermGrace
    /\ UNCHANGED <<entry, platform, T, prog, now, startedAt, limitsSet,
                   queue, errq, tempDir, result, evVars>>

JoinGrace ==
    /\ hpc = "join_2"
    /\ JoinDone(deadline)
    /\ hpc' = AfterGrace
    /\ UNCHANGED <<entry, platform, T, prog, now, startedAt, deadline, wpc,
                   limitsSet, queue, errq, tempDir, result, sigs, evVars>>

\* os.kill(pid, SIGKILL) (or process.kill()), errors ignored; process.join(1).
Kill ==
    /\ hpc = "kill"
    /\ sigs' = Append(sigs, [sig |-> "KILL", at |-> now, alive |-> Alive, why |-> "timeout"])
    /\ wpc' = "exited"
    /\ hpc' = "join_1"
    /\ deadline' = now + KillGrace
    /\ UNCHANGED <<entry, platform, T, prog, now, startedAt, limitsSet,
                   queue, errq, tempDir, result, evVars>>

JoinKill ==
    /\ hpc = "join_1"
    /\ JoinDone(deadline)
    /\ hpc' = "timeout_ret"
    /\ UNCHANGED <<entry, platform, T, prog, now, startedAt, deadline, wpc,
                   limitsSet, queue, errq, tempDir, result, sigs, evVars>>

TimeoutReturn ==
    /\ hpc = "timeout_ret"
    /\ Return(Envelope(FALSE, "TimeoutError"))
    /\ UNCHANGED <<entry, platform, T, prog, now, startedAt, deadline, wpc,
                   limitsSet, queue, errq, tempDir, sigs, evVars>>

\* The worker has exited within the timeout: read the queues.
ReadResult ==
    /\ hpc = "read"
    /\ IF entry = "process_timeout" /\ errq # <<>>
       THEN /\ Return(Envelope(FALSE, Head(errq)))
            /\ errq' = Tail(errq)
            /\ UNCHANGED queue
       ELSE IF queue # <<>>
       THEN /\ Return(Head(queue))
            /\ queue' = Tail(queue)
            /\ UNCHANGED errq
       ELSE /\ Return(Envelope(FALSE, IF entry = "process_timeout"
                                      THEN "ProcessError" ELSE "SandboxError"))
            /\ UNCHANGED <<queue, errq>>
    /\ UNCHANGED <<entry, platform, T, prog, now, startedAt, deadline, wpc,
                   limitsSet, tempDir, sigs, evVars>>

\* except Exception as e: terminate the worker if alive, join(1), and hand
\* back an error envelope.
Except ==
    /\ hpc = "except"
    /\ IF Alive
       THEN /\ sigs' = Append(sigs, [sig |-> "TERM", at |-> now, alive |-> TRUE, why |-> "except"])
            /\ wpc' = IF wpc = "run" /\ prog.ignoresTerm THEN wpc ELSE "exited"
            /\ hpc' = "except_join"
            /\ deadline' = now + KillGrace
            /\ UNCHANGED result
       ELSE /\ Return(Envelope(FALSE, "OSError"))
            /\ UNCHANGED <<sigs, wpc, deadline>>
    /\ UNCHANGED <<entry, platform, T, prog, now, startedAt, limitsSet,
                   queue, errq, tempDir, evVars>>

ExceptJoin ==
    /\ hpc = "except_join"
    /\ JoinDone(deadline)
    /\ Return(Envelope(FALSE, "OSError"))
    /\ UNCHANGED <<entry, platform, T, prog, now, startedAt, deadline, wpc,
                   limitsSet, queue, errq, tempDir, sigs, evVars>>

\* execute_code: finally shutil.rmtree(temp_dir, ignore_errors=True), the
\* result or the exception then goes on to the caller.  run_code: the exit of
\* temp_directory calls cleanup_path when a directory was created, and the
\* except clause turns an exception into an error response.
Cleanup(dir) == IF dir = "exists" THEN "deleted" ELSE dir

Finally ==
    /\ hpc = "finally"
    /\ tempDir' = Cleanup(tempDir)
    /\ result' = IF entry = "run_code" /\ result.kind = "raised"
                 THEN Envelope(FALSE, "none") ELSE result
    /\ hpc' = "done"
    /\ UNCHANGED <<entry, platform, T, prog, now, startedAt, deadline, wpc,
                   limitsSet, queue, errq, sigs, evVars>>

\* Time passes only while the host waits in a join that has not returned;
\* every other host step is immediate.
Tick ==
    /\ hpc \in Joins
    /\ ~JoinDone(deadline)
    /\ now < MaxClock
    /\ now' = now + 1
    /\ UNCHANGED <<entry, platform, T, prog, hpc, startedAt, deadline, wpc,
                   limitsSet, queue, errq, tempDir, result, sigs, evVars>>

\* An exception raised in the host while it waits in process.join(timeout):
\* the SIGALRM handler that execution_timeout installs raises
\* ExecutionTimeoutError in the main thread, inside the try of execute.
HostInterrupt ==
    /\ hpc = "join_T"
    /\ Alive
    /\ hpc' = "except"
    /\ UNCHANGED <<entry, platform, T, prog, now, startedAt, deadline, wpc,
                   limitsSet, queue, errq, tempDir, result, sigs, evVars>>

(***************************************************************************)
(* Worker: _execute_target (sandbox) and _execute_in_process               *)
(***************************************************************************)
\* The worker's exception path: the sandbox worker puts an error envelope on
\* the result queue, _execute_in_process puts the error on the error queue.
WorkerFailsSilently(etype) == UNCHANGED <<queue, errq>>
WorkerFails(etype) ==
    IF entry = "process_timeout"
    THEN errq' = Append(errq, etype) /\ UNCHANGED queue
    ELSE queue' = Append(queue, Envelope(FALSE, etype)) /\ UNCHANGED errq

\* The worker goes on to load the program with no limit set.
WorkerSkipsLimits ==
    /\ wpc = "limits"
    /\ wpc' = "load"
    /\ UNCHANGED <<entry, platform, T, prog, hpc, now, startedAt, deadline,
                   limitsSet, queue, errq, tempDir, result, sigs, evVars>>
\* self._setup_resource_limits(): sets the limits, or raises.
WorkerLimits ==
    /\ wpc = "limits"
    /\ IF prog.limitsFail
       THEN /\ WorkerFails("ValueError")
            /\ wpc' = "flush"
            /\ UNCHANGED limitsSet
       ELSE /\ limitsSet' = TRUE
            /\ wpc' = "load"
            /\ UNCHANGED <<queue, errq>>
    /\ UNCHANGED <<entry, platform, T, prog, hpc, now, startedAt, deadline,
                   tempDir, result, sigs, evVars>>

\* engine.load_file(file_path): on failure put an error envelope and return.
WorkerLoad ==
    /\ wpc = "load"
    /\ IF prog.loads
       THEN wpc' = "run" /\ UNCHANGED queue
       ELSE /\ queue' = Append(queue, Envelope(FALSE,
                        IF entry = "process_timeout" THEN "none" ELSE "FileError"))
            /\ wpc' = "flush"
    /\ UNCHANGED <<entry, platform, T, prog, hpc, now, startedAt, deadline,
                   limitsSet, errq, tempDir, result, sigs, evVars>>

\* engine.execute / engine.debug, then result_queue.put(result).  A program
\* that loops never gets here; a crash ends the process with nothing put.
WorkerRun ==
    /\ wpc = "run"
    /\ prog.run # "loop"
    /\ CASE prog.run = "ok" ->
              /\ queue' = Append(queue, Envelope(TRUE, "none"))
              /\ wpc' = "flush"
              /\ UNCHANGED errq
         [] prog.run = "langerr" ->
              /\ queue' = Append(queue, Envelope(FALSE, "HPLRuntimeError"))
              /\ wpc' = "flush"
              /\ UNCHANGED errq
         [] prog.run = "memerr" ->
              /\ WorkerFails(IF entry = "process_timeout" THEN "MemoryError"
                             ELSE "MemoryLimitExceeded")
              /\ wpc' = "flush"
         [] prog.run = "exc" ->
              /\ WorkerFails("RuntimeError")
              /\ wpc' = "flush"
         [] OTHER ->
              /\ wpc' = "exited"
              /\ UNCHANGED <<queue, errq>>
    /\ UNCHANGED <<entry, platform, T, prog, hpc, now, startedAt, deadline,
                   limitsSet, tempDir, result, sigs, evVars>>

\* The process ends once the queue's feeder thread has written the envelope
\* to the pipe; an envelope larger than the pipe buffer (the success envelope
\* of a program with big output) is written only as the host reads, and the
\* host reads after the join.
WorkerExit ==
    /\ wpc = "flush"
    /\ ~(prog.big /\ queue # <<>> /\ Head(queue).success)
    /\ wpc' = "exited"
    /\ UNCHANGED <<entry, platform, T, prog, hpc, now, startedAt, deadline,
                   limitsSet, queue, errq, tempDir, result, sigs, evVars>>

SbNext ==
    \/ Call \/ CopyIncludes \/ WriteSource \/ ExistsCheck \/ Start
    \/ JoinTimeout \/ Terminate \/ JoinGrace \/ Kill \/ JoinKill
    \/ TimeoutReturn \/ ReadResult \/ HostInterrupt \/ Except \/ ExceptJoin
    \/ Finally \/ Tick
    \/ WorkerLimits \/ WorkerLoad \/ WorkerRun \/ WorkerExit

Init == SbInit /\ EvIdle
Next == SbNext
Spec == Init /\ [][Next]_vars

(***************************************************************************)
(* Evaluator (hpl_runtime/evaluator.py)                                    *)
(*                                                                         *)
(* Values are tagged records: int n, bool b, str s (a sequence of text     *)
(* chunks; decimal digits are one chunk each), arr ref (a list object on   *)
(* the heap), obj name (a declared object), null.  As in Python a bool is  *)
(* an int (isinstance(True, int)) with True = 1.                           *)
(*                                                                         *)
(* An evaluation threads st = [glob, heap, out, cur, stack] (global_scope, *)
(* the list objects, what echo printed, current_obj, call_stack) and the   *)
(* local_scope of the activation, and yields a result record               *)
(*   [st, loc, exc, ret, val]                                              *)
(* where exc is the Python exception in flight (NoExc when none), ret says *)
(* that val is wrapped in a ReturnValue.                                   *)
(***************************************************************************)
MaxIter == 3
\* The lists the address space limit of the worker (RLIMIT_AS) leaves room
\* for, when a program does not say otherwise.
MaxCells == 6
MaxLen == 3
\* The directories and .. an include path names before its file.
MaxSegs == 2

IntV(i) == [t |-> "int", n |-> i]
BoolV(x) == [t |-> "bool", b |-> x]
StrV(x) == [t |-> "str", s |-> x]
ArrV(r) == [t |-> "arr", ref |-> r]
ObjV(o) == [t |-> "obj", name |-> o]
NullV == [t |-> "null"]

NoExc == [etype |-> "none", msg |-> <<>>]
Exc(etype, msg) == [etype |-> etype, msg |-> msg]
\* Not a Python exception: the evaluation does not come back (a loop that
\* runs past MaxIter iterations).
Diverges == [etype |-> "diverges", msg |-> <<>>]

Res(st, loc, val) == [st |-> st, loc |-> loc, exc |-> NoExc, ret |-> FALSE, val |-> val]
Raise(st, loc, e) == [st |-> st, loc |-> loc, exc |-> e, ret |-> FALSE, val |-> NullV]
ReturnValue(st, loc, val) == [st |-> st, loc |-> loc, exc |-> NoExc, ret |-> TRUE, val |-> val]
Failed(r) == r.exc.etype # "none"

Put(f, k, v) == [x \in DOMAIN f \cup {k} |-> IF x = k THEN v ELSE f[x]]

\* isinstance(v, (int, float)) and the number a numeric value stands for.
IsNum(v) == v.t \in {"int", "bool"}
Num(v) == IF v.t = "bool" THEN (IF v.b THEN 1 ELSE 0) ELSE v.n

\* str(n) for an integer n.
Digit(d) == CASE d = 0 -> "0" [] d = 1 -> "1" [] d = 2 -> "2" [] d = 3 -> "3"
              [] d = 4 -> "4" [] d = 5 -> "5" [] d = 6 -> "6" [] d = 7 -> "7"
              [] d = 8 -> "8" [] OTHER -> "9"
RECURSIVE NatStr(_)
NatStr(n) == IF n < 10 THEN <<Digit(n)>> ELSE NatStr(n \div 10) \o <<Digit(n % 10)>>
IntStr(n) == IF n < 0 THEN <<"-">> \o NatStr(0 - n) ELSE NatStr(n)

\* type(v).__name__
TypeName(v) ==
    CASE v.t = "int" -> "int" [] v.t = "bool" -> "bool" [] v.t = "str" -> "str"
      [] v.t = "arr" -> "list" [] v.t = "obj" -> "HPLObject" [] OTHER -> "NoneType"

\* str(v) and repr(v), as print and string concatenation use them.
RECURSIVE PyRepr(_, _)
RECURSIVE JoinRepr(_, _)
JoinRepr(elems, heap) ==
    IF elems = <<>> THEN <<>>
    ELSE IF Len(elems) = 1 THEN PyRepr(elems[1], heap)
    ELSE PyRepr(elems[1], heap) \o <<", ">> \o JoinRepr(Tail(elems), heap)
PyRepr(v, heap) ==
    CASE v.t = "int" -> IntStr(v.n)
      [] v.t = "bool" -> IF v.b THEN <<"True">> ELSE <<"False">>
      [] v.t = "str" -> <<"'">> \o v.s \o <<"'">>
      [] v.t = "arr" -> <<"[">> \o JoinRepr(heap[v.ref], heap) \o <<"]">>
      [] v.t = "obj" -> <<"<HPLObject ", v.name, ">">>
      [] OTHER -> <<"None">>
PyStr(v, heap) == IF v.t = "str" THEN v.s ELSE PyRepr(v, heap)

\* bool(v): Python truthiness, as `if cond`, `while cond`, and, or use it.
Truthy(v, heap) ==
    CASE v.t = "int" -> v.n # 0
      [] v.t = "bool" -> v.b
      [] v.t = "str" -> v.s # <<>>
      [] v.t = "arr" -> heap[v.ref] # <<>>
      [] v.t = "obj" -> TRUE
      [] OTHER -> FALSE

\* left % right in Python, right # 0: the result has the sign of right.
PyMod(a, b) == IF b > 0 THEN a % b ELSE 0 - ((0 - a) % (0 - b))

TypeErrorOp(op, v) ==
    Exc("TypeError", <<"Unsupported operand type for ", op, ": '", TypeName(v),
                       "' (expected number)">>)

\* _eval_binary_op(left, op, right), on operands already evaluated.
\* ('/' yields a float and is left out of the modelled operators.)
EvalBinaryOp(st, loc, left, op, right) ==
    IF op = "&&" THEN Res(st, loc, IF Truthy(left, st.heap) THEN right ELSE left)
    ELSE IF op = "||" THEN Res(st, loc, IF Truthy(left, st.heap) THEN left ELSE right)
    ELSE IF op = "+" THEN
        IF IsNum(left) /\ IsNum(right)
        THEN Res(st, loc, IntV(Num(left) + Num(right)))
        ELSE Res(st, loc, StrV(PyStr(left, st.heap) \o PyStr(right, st.heap)))
    ELSE IF ~IsNum(left) THEN Raise(st, loc, TypeErrorOp(op, left))
    ELSE IF ~IsNum(right) THEN Raise(st, loc, TypeErrorOp(op, right))
    ELSE LET a == Num(left)
             b == Num(right)
         IN CASE op = "-" -> Res(st, loc, IntV(a - b))
              [] op = "*" -> Res(st, loc, IntV(a * b))
              [] op = "%" -> IF b = 0
                             THEN Raise(st, loc, Exc("ZeroDivisionError", <<"Modulo by zero">>))
                             ELSE Res(st, loc, IntV(PyMod(a, b)))
              [] op = "==" -> Res(st, loc, BoolV(a = b))
              [] op = "!=" -> Res(st, loc, BoolV(a # b))
              [] op = "<" -> Res(st, loc, BoolV(a < b))
              [] op = "<=" -> Res(st, loc, BoolV(a <= b))
              [] op = ">" -> Res(st, loc, BoolV(a > b))
              [] op = ">=" -> Res(st, loc, BoolV(a >= b))
              [] OTHER -> Raise(st, loc, Exc("ValueError", <<"Unknown operator ", op>>))

\* _lookup_variable(name, local_scope)
LookupVariable(st, loc, name) ==
    IF name \in DOMAIN loc THEN Res(st, loc, loc[name])
    ELSE IF name \in DOMAIN st.glob THEN Res(st, loc, st.glob[name])
    ELSE Raise(st, loc, Exc("ValueError", <<"Undefined variable: '", name, "'">>))

\* _update_variable(name, value, local_scope)
UpdateVariable(st, loc, name, value) ==
    IF name \in DOMAIN loc THEN Res(st, Put(loc, name, value), NullV)
    ELSE IF name \in DOMAIN st.glob
    THEN Res([st EXCEPT !.glob = Put(st.glob, name, value)], loc, NullV)
    ELSE Res(st, Put(loc, name, value), NullV)

\* The bounds check and element read of ArrayAccess, on a list or a string
\* and an index already evaluated.
OutOfBoundsFromOne(index, length) == index <= 0 \/ index >= length
OutOfBounds(index, length) == index < 0 \/ index >= length

IndexError(index, length) ==
    Exc("IndexError", <<"Array index ">> \o PyRepr(index, <<>>) \o
                      <<" out of bounds (length: ">> \o IntStr(length) \o <<")">>)

SeqOf(v, heap) == IF v.t = "arr" THEN heap[v.ref] ELSE v.s

ArrayRead(st, loc, array, index) ==
    IF array.t \notin {"arr", "str"}
    THEN Raise(st, loc, Exc("TypeError",
             <<"Cannot index non-array and non-string value: ", TypeName(array)>>))
    ELSE IF ~IsNum(index)
    THEN Raise(st, loc, Exc("TypeError",
             <<"Array index must be integer, got ", TypeName(index)>>))
    ELSE IF OutOfBounds(Num(index), Len(SeqOf(array, st.heap)))
    THEN Raise(st, loc, IndexError(index, Len(SeqOf(array, st.heap))))
    ELSE Res(st, loc, IF array.t = "arr" THEN st.heap[array.ref][Num(index) + 1]
                      ELSE StrV(<<array.s[Num(index) + 1]>>))

\* The class record of a declared object, and the classes of the program.
Classes == program.classes
ClassOf(objName) == program.objects[objName]

\* Method lookup of _call_method: the object's own class, then its parent.
\* The name of the class whose method is called, or "" when none is found.
ResolveMethod(className, methodName) ==
    IF methodName \in DOMAIN Classes[className].methods THEN className
    ELSE IF Classes[className].parent # ""
            /\ methodName \in DOMAIN Classes[Classes[className].parent].methods
    THEN Classes[className].parent
    ELSE ""

\* method_scope = {param: args[i] ... if i < len(args)}; method_scope['this'] = obj
MethodScope(params, args, obj) ==
    LET n == IF Len(args) < Len(params) THEN Len(args) ELSE Len(params)
        bound == {params[i] : i \in 1..n}
    IN [x \in bound \cup {"this"} |->
          IF x = "this" THEN obj
          ELSE args[CHOOSE i \in 1..n :
                      params[i] = x /\ \A j \in (i + 1)..n : params[j] # x]]

\* execute_block stops at a statement that yielded a ReturnValue (an
\* exception in flight leaves it as well).
BlockStopsOnlyOnRaise(r) == Failed(r)
BlockStops(r) == r.ret \/ Failed(r)

\* except Exception: what a try/catch catches.  BreakException and
\* ContinueException are subclasses of Exception.
Catches(e) == e.etype \notin {"none", "diverges"}

RECURSIVE EvalExpr(_, _, _)
RECURSIVE EvalArgs(_, _, _)
RECURSIVE ExecStmt(_, _, _)
RECURSIVE ExecBlock(_, _, _)
RECURSIVE ExecWhile(_, _, _, _)
RECURSIVE ExecFor(_, _, _, _)
RECURSIVE CallMethod(_, _, _, _, _)

\* [evaluate_expression(arg, local_scope) for arg in args]: the result's
\* val is the sequence of the values.
EvalArgs(args, st, loc) ==
    IF args = <<>> THEN Res(st, loc, <<>>)
    ELSE LET First(a) ==
                 IF Failed(a) THEN a
                 ELSE LET Rest(r) == IF Failed(r) THEN r
                                     ELSE Res(r.st, r.loc, <<a.val>> \o r.val)
                      IN Rest(EvalArgs(Tail(args), a.st, a.loc))
         IN First(EvalExpr(Head(args), st, loc))

\* execute_function(func, local_scope): unwraps a ReturnValue.
ExecFunction(func, st, loc) ==
    LET Unwrap(r) == IF r.ret THEN [r EXCEPT !.ret = FALSE] ELSE r
    IN Unwrap(ExecBlock(func.body, st, loc))

\* A call that leaves its frame on the call stack.
KeepFrame(stack) == stack
\* `finally: self.call_stack.pop()`.
PopFrame(stack) == SubSeq(stack, 1, Len(stack) - 1)
\* _call_method(obj, method_name, args); loc is the caller's local scope,
\* which the call leaves alone.
CallMethod(st, loc, obj, methodName, args) ==
    LET Popped(r) ==
            [r EXCEPT !.st = [r.st EXCEPT !.cur = st.cur,
                                          !.stack = PopFrame(r.st.stack)],
                      !.loc = loc]
        Invoke(method) ==
            Popped(ExecFunction(method,
                        [st EXCEPT !.cur = obj,
                                   !.stack = Append(st.stack,
                                                 <<obj.name, ".", methodName, "()">>)],
                        MethodScope(method.params, args, obj)))
        Resolved(owner) ==
            IF owner = ""
            THEN Raise(st, loc, Exc("ValueError",
                     <<"Method '", methodName, "' not found in class '",
                       ClassOf(obj.name), "'">>))
            ELSE Invoke(Classes[owner].methods[methodName])
    IN Resolved(ResolveMethod(ClassOf(obj.name), methodName))

\* The built-in functions echo, len and str on an evaluated argument.
BuiltIn(func, a) ==
    IF Failed(a) THEN a
    ELSE IF func = "echo"
    THEN Res([a.st EXCEPT !.out = Append(a.st.out, PyStr(a.val, a.st.heap))],
             a.loc, NullV)
    ELSE IF func = "str"
    THEN Res(a.st, a.loc, StrV(PyStr(a.val, a.st.heap)))
    ELSE IF a.val.t \in {"arr", "str"}
    THEN Res(a.st, a.loc, IntV(Len(SeqOf(a.val, a.st.heap))))
    ELSE Raise(a.st, a.loc, Exc("TypeError",
             <<"len() requires list or string, got ", TypeName(a.val)>>))

\* The `!` of UnaryOp on an evaluated operand.
LogicalNot(op, o) ==
    IF Failed(o) THEN o
    ELSE IF op # "!"
    THEN Raise(o.st, o.loc, Exc("ValueError", <<"Unknown unary operator ", op>>))
    ELSE IF o.val.t # "bool"
    THEN Raise(o.st, o.loc, Exc("TypeError",
             <<"Logical NOT requires boolean operand, got ", TypeName(o.val)>>))
    ELSE Res(o.st, o.loc, BoolV(~o.val.b))

\* PostfixIncrement on the looked-up variable: yields the old value.
Increment(st, loc, name, v) ==
    IF Failed(v) THEN v
    ELSE IF ~IsNum(v.val)
    THEN Raise(st, loc, Exc("TypeError",
             <<"Cannot increment non-numeric value: ", TypeName(v.val)>>))
    ELSE [UpdateVariable(st, loc, name, IntV(Num(v.val) + 1)) EXCEPT !.val = v.val]

\* evaluate_expression(expr, local_scope).  Of the built-in functions echo,
\* len and str are modelled; module objects are not.
EvalExpr(e, st, loc) ==
    CASE e.k = "int" -> Res(st, loc, IntV(e.n))
      [] e.k = "str" -> Res(st, loc, StrV(e.s))
      [] e.k = "bool" -> Res(st, loc, BoolV(e.b))
      [] e.k = "var" -> LookupVariable(st, loc, e.name)
      [] e.k = "binop" ->
           LET Left(l) ==
                   IF Failed(l) THEN l
                   ELSE LET Right(r) ==
                                IF Failed(r) THEN r
                                ELSE EvalBinaryOp(r.st, r.loc, l.val, e.op, r.val)
                        IN Right(EvalExpr(e.right, l.st, l.loc))
           IN Left(EvalExpr(e.left, st, loc))
      [] e.k = "unary" -> LogicalNot(e.op, EvalExpr(e.operand, st, loc))
      [] e.k = "call" ->
           IF e.func \notin {"echo", "len", "str"}
           THEN Raise(st, loc, Exc("ValueError", <<"Unknown function ", e.func>>))
           ELSE BuiltIn(e.func, EvalExpr(e.args[1], st, loc))
      [] e.k = "method" ->
           LET Receiver(o) ==
                   IF Failed(o) THEN o
                   ELSE IF o.val.t # "obj"
                   THEN Raise(o.st, o.loc, Exc("ValueError",
                            <<"Cannot call method on ">> \o PyStr(o.val, o.st.heap)))
                   ELSE LET Args(a) ==
                                IF Failed(a) THEN a
                                ELSE CallMethod(a.st, a.loc, o.val, e.name, a.val)
                        IN Args(EvalArgs(e.args, o.st, o.loc))
           IN Receiver(EvalExpr(e.obj, st, loc))
      [] e.k = "postinc" -> Increment(st, loc, e.name, LookupVariable(st, loc, e.name))
      [] e.k = "array" ->
           LET Elements(a) ==
                   IF Failed(a) THEN a
                   ELSE IF Len(a.st.heap) >= program.limit
                        THEN Raise(a.st, a.loc, Exc("MemoryError", <<>>))
                   ELSE Res([a.st EXCEPT !.heap = Append(a.st.heap, a.val)], a.loc,
                            ArrV(Len(a.st.heap) + 1))
           IN Elements(EvalArgs(e.elements, st, loc))
      [] e.k = "index" ->
           LET Array(a) ==
                   IF Failed(a) THEN a
                   ELSE LET Index(i) == IF Failed(i) THEN i
                                        ELSE ArrayRead(i.st, i.loc, a.val, i.val)
                        IN Index(EvalExpr(e.index, a.st, a.loc))
           IN Array(EvalExpr(e.array, st, loc))
      [] OTHER -> Raise(st, loc, Exc("ValueError", <<"Unknown expression type ", e.k>>))

\* What a loop does with the outcome b of one run of its body: "return"
\* (hand b upward), "break" (end the loop), "raise" (b's exception leaves
\* the loop) or "next" (go on, also after a continue).
AfterBody(b) ==
    IF b.ret THEN "return"
    ELSE IF b.exc.etype = "BreakException" THEN "break"
    ELSE IF Failed(b) /\ b.exc.etype # "ContinueException" THEN "raise"
    ELSE "next"
\* The outcome with a caught break or continue cleared.
Caught(b) == Res(b.st, b.loc, NullV)

\* The loop of WhileStatement after n iterations.  A loop still running
\* after MaxIter iterations is taken not to end.
ExecWhile(s, st, loc, n) ==
    LET Body(b) ==
            IF AfterBody(b) \in {"return", "raise"} THEN b
            ELSE IF AfterBody(b) = "break" THEN Caught(b)
            ELSE ExecWhile(s, b.st, b.loc, n + 1)
        Cond(c) ==
            IF Failed(c) THEN c
            ELSE IF ~Truthy(c.val, c.st.heap) THEN Res(c.st, c.loc, NullV)
            ELSE IF n >= MaxIter THEN Raise(c.st, c.loc, Diverges)
            ELSE Body(ExecBlock(s.body, c.st, c.loc))
    IN Cond(EvalExpr(s.cond, st, loc))

\* The loop of ForStatement after n iterations (the init statement has run).
ExecFor(s, st, loc, n) ==
    LET Incr(i) == IF Failed(i) THEN i ELSE ExecFor(s, i.st, i.loc, n + 1)
        Body(b) ==
            IF AfterBody(b) \in {"return", "raise"} THEN b
            ELSE IF AfterBody(b) = "break" THEN Caught(b)
            ELSE Incr(EvalExpr(s.incr, b.st, b.loc))
        Cond(c) ==
            IF Failed(c) THEN c
            ELSE IF ~Truthy(c.val, c.st.heap) THEN Res(c.st, c.loc, NullV)
            ELSE IF n >= MaxIter THEN Raise(c.st, c.loc, Diverges)
            ELSE Body(ExecBlock(s.body, c.st, c.loc))
    IN Cond(EvalExpr(s.cond, st, loc))

\* execute_block(block, local_scope)
ExecBlock(stmts, st, loc) ==
    IF stmts = <<>> THEN Res(st, loc, NullV)
    ELSE LET Stmt(r) == IF BlockStops(r) THEN r
                        ELSE ExecBlock(Tail(stmts), r.st, r.loc)
         IN Stmt(ExecStmt(Head(stmts), st, loc))

\* load_module(module_name): the module cached under the name, or else the
\* module found for it, which is then cached.  A module's ref is its place
\* in the sequence of the loads made.
ModV(ref) == [t |-> "mod", ref |-> ref]
NeverCached(st, name) == FALSE
Cached(st, name) == name \in DOMAIN st.cache
LoadModule(st, name) ==
    IF Cached(st, name) THEN [st |-> st, found |-> TRUE, ref |-> st.cache[name]]
    ELSE IF name \in {"m"}
    THEN [st |-> [st EXCEPT !.loaded = Append(st.loaded, name),
                            !.cache = Put(st.cache, name, Len(st.loaded) + 1)],
          found |-> TRUE, ref |-> Len(st.loaded) + 1]
    ELSE [st |-> st, found |-> FALSE, ref |-> 0]

\* execute_import(stmt, scope): binds the module under the alias (or its
\* name) in the scope it is given, the local scope of the activation
\* (global = FALSE) or evaluator.global_scope (global = TRUE).
ExecImport(st, loc, module, alias, global) ==
    LET name == IF alias = "" THEN module ELSE alias
        Bound(m) ==
            IF ~m.found
            THEN Raise(st, loc, Exc("ImportError",
                     <<"Cannot import module '", module, "': Module '", module,
                       "' not found. Available modules: []">>))
            ELSE IF global
            THEN Res([m.st EXCEPT !.imported = Put(m.st.imported, name, ModV(m.ref)),
                                  !.glob = Put(m.st.glob, name, ModV(m.ref))],
                     loc, NullV)
            ELSE Res([m.st EXCEPT !.imported = Put(m.st.imported, name, ModV(m.ref))],
                     Put(loc, name, ModV(m.ref)), NullV)
    IN Bound(LoadModule(st, module))

\* ArrayAssignmentStatement on the looked-up array a.
ArrayAssign(s, st, loc, a) ==
    IF Failed(a) THEN a
    ELSE IF a.val.t # "arr"
    THEN Raise(st, loc, Exc("TypeError",
             <<"Cannot assign to non-array value: ", TypeName(a.val)>>))
    ELSE LET Value(i, v) ==
                 IF Failed(v) THEN v
                 ELSE Res([v.st EXCEPT !.heap[a.val.ref][Num(i.val) + 1] = v.val],
                          v.loc, NullV)
             Index(i) ==
                 IF Failed(i) THEN i
                 ELSE IF ~IsNum(i.val)
                 THEN Raise(i.st, i.loc, Exc("TypeError",
                          <<"Array index must be integer, got ", TypeName(i.val)>>))
                 ELSE IF OutOfBounds(Num(i.val), Len(i.st.heap[a.val.ref]))
                 THEN Raise(i.st, i.loc, IndexError(i.val, Len(i.st.heap[a.val.ref])))
                 ELSE Value(i, EvalExpr(s.value, i.st, i.loc))
         IN Index(EvalExpr(s.index, st, loc))

\* execute_statement(stmt, local_scope)
ExecStmt(s, st, loc) ==
    CASE s.k = "assign" ->
           LET Value(v) == IF Failed(v) THEN v
                           ELSE Res(v.st, Put(v.loc, s.name, v.val), NullV)
           IN Value(EvalExpr(s.expr, st, loc))
      [] s.k = "arrassign" -> ArrayAssign(s, st, loc, LookupVariable(st, loc, s.name))
      [] s.k = "return" ->
           IF s.expr.k = "none" THEN ReturnValue(st, loc, NullV)
           ELSE LET Value(v) == IF Failed(v) THEN v
                                ELSE ReturnValue(v.st, v.loc, v.val)
                IN Value(EvalExpr(s.expr, st, loc))
      [] s.k = "if" ->
           LET Cond(c) ==
                   IF Failed(c) THEN c
                   ELSE ExecBlock(IF Truthy(c.val, c.st.heap) THEN s.then ELSE s.else,
                                  c.st, c.loc)
           IN Cond(EvalExpr(s.cond, st, loc))
      [] s.k = "for" ->
           LET Started(i) == IF Failed(i) THEN i ELSE ExecFor(s, i.st, i.loc, 0)
           IN Started(ExecStmt(s.init, st, loc))
      [] s.k = "while" -> ExecWhile(s, st, loc, 0)
      [] s.k = "break" -> Raise(st, loc, Exc("BreakException", <<>>))
      [] s.k = "continue" -> Raise(st, loc, Exc("ContinueException", <<>>))
      [] s.k = "try" ->
           LET Try(r) ==
                   IF Catches(r.exc)
                   THEN ExecBlock(s.catch, r.st, Put(r.loc, s.var, StrV(r.exc.msg)))
                   ELSE r
           IN Try(ExecBlock(s.try, st, loc))
      [] s.k = "echo" -> BuiltIn("echo", EvalExpr(s.expr, st, loc))
      [] s.k = "increment" ->
           [Increment(st, loc, s.name, LookupVariable(st, loc, s.name))
               EXCEPT !.val = NullV]
      [] s.k = "block" -> ExecBlock(s.body, st, loc)
      [] s.k = "import" -> ExecImport(st, loc, s.module, s.alias, FALSE)
      [] OTHER -> EvalExpr(s, st, loc)

\* HPLEvaluator.__init__ and run(): global_scope is the objects table, main
\* runs in an empty local scope.
EmptyScope == [x \in {} |-> NullV]
\* os.path.normpath of a relative path, a list of segments: a segment and
\* the .. after it cancel, a .. with nothing before it to cancel stays.
RECURSIVE NormPath(_, _)
NormPath(path, seen) ==
    IF path = <<>> THEN seen
    ELSE IF Head(path) = ".." /\ seen # <<>> /\ seen[Len(seen)] # ".."
         THEN NormPath(Tail(path), SubSeq(seen, 1, Len(seen) - 1))
    ELSE NormPath(Tail(path), Append(seen, Head(path)))
\* copy_include_files: the files copied into the execution directory, each
\* named by its path there.  An include whose normalised path still holds
\* a .. is skipped; another is copied when a search directory has the file.
CopyIncludeFiles(includes) ==
    {NormPath(i.path, <<>>) : i \in
        {i \in includes : i.present /\ \A n \in DOMAIN NormPath(i.path, <<>>) :
                                           NormPath(i.path, <<>>)[n] # ".."}}
\* load_and_parse: the include files read and merged, each named by its
\* path from the directory of the document.  A file is read when
\* os.path.exists finds it.
LoadAndParse(includes) ==
    {NormPath(i.path, <<>>) : i \in {i \in includes : i.present}}

InitialState ==
    [glob |-> [o \in DOMAIN program.objects |-> ObjV(o)],
     heap |-> <<>>, out |-> <<>>, cur |-> NullV, stack |-> <<>>,
     imported |-> EmptyScope, cache |-> EmptyScope, loaded |-> <<>>,
     copied |-> CopyIncludeFiles(program.includes),
     merged |-> LoadAndParse(program.includes)]
\* interpreter.main: the top-level imports are executed with
\* evaluator.global_scope, then run() executes main.
RECURSIVE ExecImports(_, _)
ExecImports(imports, st) ==
    IF imports = <<>> THEN Res(st, EmptyScope, NullV)
    ELSE LET Imported(r) == IF Failed(r) THEN r ELSE ExecImports(Tail(imports), r.st)
         IN Imported(ExecImport(st, EmptyScope, Head(imports).module,
                                Head(imports).alias, TRUE))
RunProgram ==
    LET Main(r) == IF Failed(r) THEN r
                   ELSE ExecFunction(program.main, r.st, EmptyScope)
    IN IF program.syntax # NoExc THEN Raise(InitialState, EmptyScope, program.syntax)
       ELSE Main(ExecImports(program.imports, InitialState))

(***************************************************************************)
(* Programs.  The syntax trees are those the parser builds (models.py); a  *)
(* string is kept as the sequence of its pieces.                           *)
(***************************************************************************)
IntegerLiteral(n) == [k |-> "int", n |-> n]
StringLiteral(x) == [k |-> "str", s |-> x]
BooleanLiteral(x) == [k |-> "bool", b |-> x]
Variable(name) == [k |-> "var", name |-> name]
BinaryOp(left, op, right) == [k |-> "binop", left |-> left, op |-> op, right |-> right]
FunctionCall(func, args) == [k |-> "call", func |-> func, args |-> args]
MethodCall(obj, name, args) == [k |-> "method", obj |-> Variable(obj), name |-> name, args |-> args]
PostfixIncrement(name) == [k |-> "postinc", name |-> name]
ArrayLiteral(elements) == [k |-> "array", elements |-> elements]
ArrayAccess(name, index) == [k |-> "index", array |-> Variable(name), index |-> index]
NoExpr == [k |-> "none"]
AssignmentStatement(name, expr) == [k |-> "assign", name |-> name, expr |-> expr]
ArrayAssignmentStatement(name, index, value) ==
    [k |-> "arrassign", name |-> name, index |-> index, value |-> value]
ReturnStatement(expr) == [k |-> "return", expr |-> expr]
IfStatement(cond, then, else) == [k |-> "if", cond |-> cond, then |-> then, else |-> else]
ForStatement(init, cond, incr, body) ==
    [k |-> "for", init |-> init, cond |-> cond, incr |-> incr, body |-> body]
WhileStatement(cond, body) == [k |-> "while", cond |-> cond, body |-> body]
TryCatchStatement(try, var, catch) == [k |-> "try", try |-> try, var |-> var, catch |-> catch]
EchoStatement(expr) == [k |-> "echo", expr |-> expr]
IncrementStatement(name) == [k |-> "increment", name |-> name]
BreakStatement == [k |-> "break"]
ContinueStatement == [k |-> "continue"]
ImportStatement(module, alias) == [k |-> "import", module |-> module, alias |-> alias]
HPLFunction(params, body) == [params |-> params, body |-> body]
HPLClass(parent, methods) == [parent |-> parent, methods |-> methods]

\* parse_unary: -n is parsed as 0 - n.
NumberLiteral(n) ==
    IF n < 0 THEN BinaryOp(IntegerLiteral(0), "-", IntegerLiteral(0 - n))
    ELSE IntegerLiteral(n)

Echo(word) == EchoStatement(StringLiteral(<<word>>))
Later == <<Echo("later")>>
\* for (v = 0; v < 2; v++) { body }
CountedFor(v, body) ==
    ForStatement(AssignmentStatement(v, IntegerLiteral(0)),
                 BinaryOp(Variable(v), "<", IntegerLiteral(2)),
                 PostfixIncrement(v), body)
\* A statement that raises ValueError (an undefined variable).
Raising == EchoStatement(Variable("undefined"))

\* The statement of the given kind with `body` as the block control reaches.
WrapStmt(kind, body) ==
    CASE kind = "if" -> IfStatement(BooleanLiteral(TRUE), body, <<>>)
      [] kind = "else" -> IfStatement(BooleanLiteral(FALSE), Later, body)
      [] kind = "for" -> CountedFor("w", body)
      [] kind = "while" -> WhileStatement(BooleanLiteral(TRUE), body)
      [] kind = "try" -> TryCatchStatement(body, "e", Later)
      [] OTHER -> TryCatchStatement(<<Raising>>, "e", body)

\* `core` nested inside statements of the kinds ctx (outermost first); every
\* enclosing block goes on with a statement after the nested one.
RECURSIVE WrapAll(_, _)
WrapAll(ctx, core) ==
    IF ctx = <<>> THEN core
    ELSE <<WrapStmt(Head(ctx), WrapAll(Tail(ctx), core))>> \o Later

MaxDepth == 2
MaxChain == 3
Ctxs(kinds) == UNION {[1..n -> kinds] : n \in 0..MaxDepth}
NoClasses == [c \in {} |-> HPLClass("", <<>>)]
NoObjects == [o \in {} |-> ""]
OneMethod(name, body) == [m \in {name} |-> HPLFunction(<<>>, body)]
Program(fam, par, classes, objects, body) ==
    [fam |-> fam, par |-> par, classes |-> classes, objects |-> objects,
     imports |-> <<>>, includes |-> {}, limit |-> MaxCells, syntax |-> NoExc,
     main |-> HPLFunction(<<>>, body)]

\* a = [10, 11, ...]; then x = a[i]; echo x   or   a[i] = 99; echo a[i]
IndexProgram(par) ==
    Program("index", par, NoClasses, NoObjects,
        <<AssignmentStatement("a",
              ArrayLiteral([j \in 1..par.len |-> IntegerLiteral(9 + j)])),
          IF par.write
          THEN ArrayAssignmentStatement("a", NumberLiteral(par.idx), IntegerLiteral(99))
          ELSE AssignmentStatement("x", ArrayAccess("a", NumberLiteral(par.idx))),
          EchoStatement(IF par.write THEN ArrayAccess("a", NumberLiteral(par.idx))
                        ELSE Variable("x"))>>)

\* A method f whose return lies inside statements of the kinds ctx; main
\* calls it from a loop:  for (k = 0; k < 2; k++) { x = o.f() echo x } echo "cont"
\* (a return without a value has to end its block: see parse_statement).
ReturnProgram(par) ==
    Program("return", par,
        [c \in {"K"} |->
           HPLClass("", OneMethod("f",
               WrapAll(par.ctx,
                       IF par.hasValue
                       THEN <<ReturnStatement(IntegerLiteral(7))>> \o Later
                       ELSE <<ReturnStatement(NoExpr)>>)))],
        [o \in {"o"} |-> "K"],
        <<CountedFor("k", <<AssignmentStatement("x", MethodCall("o", "f", <<>>)),
                            EchoStatement(Variable("x"))>>),
          Echo("cont")>>)

\* An inner loop whose body is  echo "pre"; <break or continue inside
\* statements of the kinds ctx>; echo "later",  run twice by an outer loop
\* that echoes "out" after it.  With par.call the inner loop is the body of
\* a method the outer loop calls.
InnerLoop(par) ==
    LET core == <<IF par.stmt = "break" THEN BreakStatement ELSE ContinueStatement>>
                \o Later
        body == <<Echo("pre")>> \o WrapAll(par.ctx, core)
    IN IF par.loop = "for" THEN <<CountedFor("j", body)>>
       ELSE <<AssignmentStatement("j", IntegerLiteral(0)),
              WhileStatement(BinaryOp(Variable("j"), "<", IntegerLiteral(2)),
                             <<IncrementStatement("j")>> \o body)>>
LoopProgram(par) ==
    IF par.call
    THEN Program("loop", par,
             [c \in {"K"} |-> HPLClass("", OneMethod("f", InnerLoop(par)))],
             [o \in {"o"} |-> "K"],
             <<CountedFor("i", <<MethodCall("o", "f", <<>>), Echo("out")>>)>>)
    ELSE Program("loop", par, NoClasses, NoObjects,
             <<CountedFor("i", InnerLoop(par) \o <<Echo("out")>>)>>)

\* arr = []; for (i = 0; i < 2; i++) { try { A } catch (e) { echo "b" } echo "next" }
TryBody(a) ==
    CASE a = "none" -> <<Echo("a")>>
      [] a = "index" -> <<Echo("a"), EchoStatement(ArrayAccess("arr", IntegerLiteral(5)))>>
      [] a = "undefined" -> <<Raising>>
      [] a = "type" -> <<EchoStatement(BinaryOp(IntegerLiteral(1), "-",
                                                StringLiteral(<<"s">>)))>>
      [] a = "modulo" -> <<EchoStatement(BinaryOp(IntegerLiteral(1), "%",
                                                  IntegerLiteral(0)))>>
      [] a = "method" -> <<MethodCall("o", "nope", <<>>)>>
      [] a = "callee" -> <<MethodCall("o", "f", <<>>)>>
      [] a = "break" -> <<Echo("a"), BreakStatement>>
      [] OTHER -> <<Echo("a"), ContinueStatement>>
TryProgram(par) ==
    Program("try", par,
        [c \in {"K"} |-> HPLClass("", OneMethod("f", <<Raising>>))],
        [o \in {"o"} |-> "K"],
        <<AssignmentStatement("arr", ArrayLiteral(<<>>)),
          CountedFor("i", <<TryCatchStatement(TryBody(par.a), "e", <<Echo("b")>>),
                            Echo("next")>>)>>)

\* n = 0; arr = []; r = left op right; echo r
LogicRight(right) ==
    CASE right = "literal" -> BooleanLiteral(TRUE)
      [] right = "effect" -> MethodCall("o", "f", <<>>)
      [] right = "increment" -> BinaryOp(PostfixIncrement("n"), "<", IntegerLiteral(1))
      [] OTHER -> BinaryOp(ArrayAccess("arr", IntegerLiteral(5)), "==", IntegerLiteral(1))
LogicProgram(par) ==
    Program("logic", par,
        [c \in {"K"} |->
           HPLClass("", OneMethod("f", <<Echo("b"),
                                         ReturnStatement(BooleanLiteral(TRUE))>>))],
        [o \in {"o"} |-> "K"],
        <<AssignmentStatement("n", IntegerLiteral(0)),
          AssignmentStatement("arr", ArrayLiteral(<<>>)),
          AssignmentStatement("r", BinaryOp(BooleanLiteral(par.left), par.op,
                                            LogicRight(par.right))),
          EchoStatement(Variable("r"))>>)

\* An assignment name = val where name is a local (x, or the parameter p of
\* the method), the declared object g of the global table, or a new name y;
\* in main, or in a method f(p) that main calls as r = o.f(9).
ScopeName(par) ==
    CASE par.where = "local" -> IF par.call THEN "p" ELSE "x"
      [] par.where = "global" -> "g"
      [] OTHER -> "y"
ScopeProgram(par) ==
    LET assign == <<AssignmentStatement(ScopeName(par), IntegerLiteral(par.val))>>
    IN Program("scope", par,
           [c \in {"K"} |->
              HPLClass("", [m \in {"f"} |->
                  HPLFunction(<<"p">>,
                      assign \o <<ReturnStatement(Variable(ScopeName(par)))>>)])],
           [o \in {"o", "g"} |-> "K"],
           IF par.call
           THEN <<AssignmentStatement("r", MethodCall("o", "f", <<IntegerLiteral(9)>>))>>
           ELSE <<AssignmentStatement("x", IntegerLiteral(9))>> \o assign)

\* Classes C1 <- C2 <- ... <- Cn (C1 the root), an object o of Cn; the
\* classes numbered in defs define m, each returning its number.
\* r = o.m(); echo r
ClassName(i) == <<"C1", "C2", "C3", "C4", "C5", "C6">>[i]
InheritProgram(par) ==
    Program("inherit", par,
        [c \in {ClassName(i) : i \in 1..par.n} |->
           LET i == CHOOSE j \in 1..par.n : ClassName(j) = c
           IN HPLClass(IF i = 1 THEN "" ELSE ClassName(i - 1),
                       IF i \in par.defs
                       THEN OneMethod("m", <<ReturnStatement(IntegerLiteral(i))>>)
                       ELSE [m \in {} |-> HPLFunction(<<>>, <<>>)])],
        [o \in {"o"} |-> ClassName(par.n)],
        <<AssignmentStatement("r", MethodCall("o", "m", <<>>)),
          EchoStatement(Variable("r"))>>)

\* objects: o: Kn("5") with classes K1 <- ... <- Kn where __init__(a)
\* (echo "init"; echo a) is defined by o's class, by its parent, or by no
\* class; main calls o.f() par.calls times, f being  echo "f".
\* parse_objects keeps the argument texts as attributes['__init_args__'].
InitProgram(par) ==
    LET InitMethod ==
            [m \in {"__init__"} |->
               HPLFunction(<<"a">>, <<Echo("init"), EchoStatement(Variable("a"))>>)]
    IN
    Program("init", par,
        [c \in {"Base", "K"} |->
           HPLClass(IF c = "K" THEN "Base" ELSE "",
                    (IF c = "K" THEN OneMethod("f", <<Echo("f")>>)
                     ELSE [m \in {} |-> HPLFunction(<<>>, <<>>)])
                    @@ (IF (c = "K" /\ par.init = "own") \/ (c = "Base" /\ par.init = "parent")
                        THEN InitMethod
                        ELSE [m \in {} |-> HPLFunction(<<>>, <<>>)]))],
        [o \in {"o"} |-> "K"],
        [j \in 1..par.calls |-> MethodCall("o", "f", <<>>)])
        @@ [objectArgs |-> [o \in {"o"} |-> <<"5">>]]

\* if (c) { echo "then" } else { echo "else" }  for a condition c of each type.
CondProgram(par) ==
    Program("cond", par, NoClasses, NoObjects,
        <<IfStatement(
              CASE par.cond = "true" -> BooleanLiteral(TRUE)
                [] par.cond = "false" -> BooleanLiteral(FALSE)
                [] par.cond = "zero" -> IntegerLiteral(0)
                [] par.cond = "one" -> IntegerLiteral(1)
                [] par.cond = "empty" -> StringLiteral(<<>>)
                [] par.cond = "str" -> StringLiteral(<<"s">>)
                [] OTHER -> ArrayLiteral(<<IntegerLiteral(1)>>),
              <<Echo("then")>>, <<Echo("else")>>)>>)

\* r = left op right  for op in ==, != and literal operands of each type.
\* Distinct names denote values that differ in type or in value.
EqualProgram(par) ==
    LET Literal(name) ==
            CASE name = "one" -> IntegerLiteral(1)
              [] name = "two" -> IntegerLiteral(2)
              [] name = "true" -> BooleanLiteral(TRUE)
              [] name = "false" -> BooleanLiteral(FALSE)
              [] name = "a" -> StringLiteral(<<"a">>)
              [] name = "b" -> StringLiteral(<<"b">>)
              [] OTHER -> ArrayLiteral(<<IntegerLiteral(1)>>)
    IN
    Program("equal", par, NoClasses, NoObjects,
        <<AssignmentStatement("r", BinaryOp(Literal(par.left), par.op,
                                            Literal(par.right)))>>)

\* `import module as alias` in a function body as parse_statement reads it:
\* the lexer has no keyword `as`, so the alias is not taken up by
\* parse_import_statement and the words `as` and the alias follow the
\* import as two expression statements.
BodyImport(module, alias) ==
    IF alias = "" THEN <<ImportStatement(module, "")>>
    ELSE <<ImportStatement(module, ""), Variable("as"), Variable(alias)>>
\* Module m is imported under the aliases par.top (none: as m) by the
\* top-level imports list and, as `import m` or `import m as a`, by a
\* statement of main or of the method h that main calls (par.where).  Then
\* main calls f, which imports m once more and returns it (r2), and g, which
\* returns what the name of the first import holds (r3).
ImportProgram(par) ==
    LET first == IF par.top # <<>> THEN par.top[1] ELSE par.alias
    IN
    [Program("import", par,
        [c \in {"K"} |->
           HPLClass("",
               [m \in {"f", "g", "h"} |->
                  HPLFunction(<<>>,
                      CASE m = "f" -> <<ImportStatement("m", ""),
                                        ReturnStatement(Variable("m"))>>
                        [] m = "g" -> <<ReturnStatement(Variable(IF first = "" THEN "m" ELSE first))>>
                        [] OTHER -> BodyImport("m", par.alias))])],
        [o \in {"o"} |-> "K"],
        (CASE par.where = "none" -> <<>>
           [] par.where = "main" -> BodyImport("m", par.alias)
           [] OTHER -> <<MethodCall("o", "h", <<>>)>>)
        \o <<AssignmentStatement("r2", MethodCall("o", "f", <<>>)),
             AssignmentStatement("r3", MethodCall("o", "g", <<>>))>>)
     EXCEPT !.imports = [j \in 1..Len(par.top) |-> [module |-> "m", alias |-> par.top[j]]]]

\* try { body; echo "done" } catch (e) { echo "caught" }; echo "after"
\* where the body allocates a list, loops for ever, or assigns a number, and
\* the worker's address space has room for par.room lists.
LimitProgram(par) ==
    [Program("limit", par, NoClasses, NoObjects,
        <<TryCatchStatement(
              <<CASE par.body = "alloc" ->
                       AssignmentStatement("a", ArrayLiteral(<<IntegerLiteral(1)>>))
                  [] par.body = "loop" -> WhileStatement(BooleanLiteral(TRUE), <<>>)
                  [] OTHER -> AssignmentStatement("a", IntegerLiteral(1)),
                Echo("done")>>,
              "e", <<Echo("caught")>>),
          Echo("after")>>)
     EXCEPT !.limit = par.room]

(***************************************************************************)
(* The parser of function bodies (ast_parser.py).  A token is a record     *)
(* [type, value]; the token list ends with EOF.  A parse yields the node,  *)
(* the tokens not yet read and the ValueError raised, if any.              *)
(***************************************************************************)
Parsed(node, rest) == [node |-> node, rest |-> rest, err |-> NoExc]

RECURSIVE ParseMultiplicative(_)
RECURSIVE ParseAdditive(_)
RECURSIVE ParseStatements(_, _)

ParsePrimary(toks) ==
    LET tok == toks[1]
    IN CASE tok.type = "NUMBER" -> Parsed(IntegerLiteral(tok.value), Tail(toks))
         [] tok.type = "STRING" -> Parsed(StringLiteral(<<tok.value>>), Tail(toks))
         [] tok.type = "IDENTIFIER" -> Parsed(Variable(tok.value), Tail(toks))
         [] OTHER -> [node |-> NoExpr, rest |-> toks,
                      err |-> Exc("ValueError", <<"Unexpected token ", tok.type>>)]
\* The loop of parse_multiplicative, left being the operand read so far.
ParseMultiplicative(left) ==
    IF left.err # NoExc \/ left.rest[1].type # "MUL" THEN left
    ELSE LET Right(r) ==
                 IF r.err # NoExc THEN r
                 ELSE ParseMultiplicative(Parsed(BinaryOp(left.node, "*", r.node), r.rest))
         IN Right(ParsePrimary(Tail(left.rest)))
\* The loop of parse_additive.
ParseAdditive(left) ==
    IF left.err # NoExc \/ left.rest[1].type # "PLUS" THEN left
    ELSE LET Right(r) ==
                 IF r.err # NoExc THEN r
                 ELSE ParseAdditive(Parsed(BinaryOp(left.node, "+", r.node), r.rest))
         IN Right(ParseMultiplicative(ParsePrimary(Tail(left.rest))))
ParseExpression(toks) == ParseAdditive(ParseMultiplicative(ParsePrimary(toks)))

ParseStatement(toks) ==
    LET tok == toks[1]
        Wrap(e, node) == IF e.err # NoExc THEN e ELSE Parsed(node, e.rest)
        Echoed(e) == Wrap(e, EchoStatement(e.node))
        Assigned(e) == Wrap(e, AssignmentStatement(tok.value, e.node))
        Returned(e) == Wrap(e, ReturnStatement(e.node))
    IN CASE tok.type = "KEYWORD" /\ tok.value = "return" ->
              IF toks[2].type \in {"SEMICOLON", "RBRACE", "EOF"}
              THEN Parsed(ReturnStatement(NoExpr), Tail(toks))
              ELSE Returned(ParseExpression(Tail(toks)))
         [] tok.type = "KEYWORD" /\ tok.value = "break" ->
              Parsed(BreakStatement, Tail(toks))
         [] tok.type = "KEYWORD" /\ tok.value = "continue" ->
              Parsed(ContinueStatement, Tail(toks))
         [] tok.type = "IDENTIFIER" /\ tok.value = "echo" ->
              Echoed(ParseExpression(Tail(toks)))
         [] tok.type = "IDENTIFIER" /\ tok.value # "echo" /\ toks[2].type = "INCREMENT" ->
              Parsed(IncrementStatement(tok.value), Tail(Tail(toks)))
         [] tok.type = "IDENTIFIER" /\ tok.value # "echo" /\ toks[2].type = "ASSIGN" ->
              Assigned(ParseExpression(Tail(Tail(toks))))
         [] OTHER -> ParseExpression(toks)

\* _parse_statements_until_end, read being the statements parsed so far.
ParseStatements(toks, read) ==
    IF toks[1].type \in {"DEDENT", "RBRACE", "EOF"} THEN Parsed(read, toks)
    ELSE IF toks[1].type = "INDENT" THEN ParseStatements(Tail(toks), read)
    ELSE LET Statement(s) == IF s.err # NoExc THEN s
                             ELSE ParseStatements(s.rest, Append(read, s.node))
         IN Statement(ParseStatement(toks))

\* parse_function: the lexer turns the text of the body into tokens, which
\* passes over a line end and makes a SEMICOLON token of a semicolon, and
\* parse_block reads the statements.  The text is a list of tokens and line
\* ends.
ParseFunction(text) ==
    ParseStatements(SelectSeq(text, LAMBDA t : t.type # "NEWLINE")
                    \o <<[type |-> "EOF", value |-> ""]>>, <<>>)

\* The bodies  x = 3 + 4 * 2 | echo x,   echo "a" | break | echo "b",
\* echo "a" | continue | echo "b",   n = 1 | n++ | echo n   and
\* echo "a" | return | echo "b",   the statements separated (at |) by line
\* ends or by semicolons.
SourceProgram(par) ==
    LET Token(type, value) == [type |-> type, value |-> value]
        Sep == <<Token(par.sep, ";")>>
        Word(type, value) == <<Token("IDENTIFIER", "echo"), Token(type, value)>>
        text ==
            CASE par.text = "sum" ->
                   <<Token("IDENTIFIER", "x"), Token("ASSIGN", "="), Token("NUMBER", 3),
                     Token("PLUS", "+"), Token("NUMBER", 4), Token("MUL", "*"),
                     Token("NUMBER", 2)>> \o Sep \o Word("IDENTIFIER", "x")
              [] par.text = "increment" ->
                   <<Token("IDENTIFIER", "n"), Token("ASSIGN", "="), Token("NUMBER", 1)>>
                   \o Sep \o <<Token("IDENTIFIER", "n"), Token("INCREMENT", "++")>>
                   \o Sep \o Word("IDENTIFIER", "n")
              [] OTHER ->
                   Word("STRING", "a") \o Sep \o <<Token("KEYWORD", par.text)>> \o Sep
                   \o Word("STRING", "b")
        Body(b) == [Program("source", par, NoClasses, NoObjects,
                            IF b.err = NoExc THEN b.node ELSE <<>>)
                    EXCEPT !.syntax = b.err]
    IN Body(ParseFunction(text))

\* A document that includes one file: x.hpl after up to MaxSegs segments,
\* each the directory a or .. ; par.present says that the file the path
\* leads to from the directory of the document exists.
IncludeProgram(par) ==
    [Program("include", par, NoClasses, NoObjects, <<Echo("main")>>)
     EXCEPT !.includes = {[path |-> par.path \o <<"x.hpl">>, present |-> par.present]}]

\* class K with f and g, object o.  g ends as par.end says (returns, raises
\* a name error, calls a method no class has); f is g's body at depth 1 and
\* calls this.g() at depth 2, inside try/catch when par.caught = "inner".
\* main: o.f() (inside try/catch when par.caught = "main"); echo "end"
StackInner(end) ==
    CASE end = "return" -> <<Echo("g"), ReturnStatement(IntegerLiteral(1))>>
      [] end = "raise" -> <<Raising>>
      [] OTHER -> <<MethodCall("this", "nope", <<>>)>>
StackProgram(par) ==
    LET Guarded(where, stmt) ==
            IF par.caught = where
            THEN <<TryCatchStatement(<<stmt>>, "e", <<Echo("c")>>)>>
            ELSE <<stmt>>
    IN Program("stack", par,
           [c \in {"K"} |->
              HPLClass("", [m \in {"f", "g"} |->
                 HPLFunction(<<>>,
                     IF m = "f" /\ par.depth = 2
                     THEN Guarded("inner", MethodCall("this", "g", <<>>))
                          \o <<Echo("f")>>
                     ELSE StackInner(par.end))])],
           [o \in {"o"} |-> "K"],
           Guarded("main", MethodCall("o", "f", <<>>)) \o <<Echo("end")>>)

(***************************************************************************)
(* The interpreter run: a program is loaded and run() executes main.       *)
(***************************************************************************)
SbOff ==
    /\ entry = "execute" /\ platform = "unix" /\ T = 1
    /\ prog = [run |-> "ok", loads |-> TRUE, limitsFail |-> FALSE,
               ignoresTerm |-> FALSE, big |-> FALSE, fileExists |-> TRUE]
    /\ hpc = "idle" /\ now = 0 /\ startedAt = 0 /\ deadline = 0
    /\ wpc = "unstarted" /\ limitsSet = FALSE /\ queue = <<>> /\ errq = <<>>
    /\ tempDir = "none" /\ result = NoResult /\ sigs = <<>>

EvInit ==
    /\ SbOff
    /\ epc = "ready"
    /\ outcome = NoResult
    /\ \/ \E par \in [len : 0..MaxLen, idx : (0 - 1)..(MaxLen + 1), write : BOOLEAN] :
              program = IndexProgram(par)
       \/ \E par \in [ctx : Ctxs({"if", "else", "for", "while", "try", "catch"}), hasValue : BOOLEAN] :
              program = ReturnProgram(par)
       \/ \E par \in [stmt : {"break", "continue"}, loop : {"for", "while"}, call : BOOLEAN,
                       ctx : Ctxs({"if", "else", "try", "catch"})] :
              program = LoopProgram(par)
       \/ \E par \in [a : {"none", "index", "undefined", "type", "modulo", "method", "callee", "break", "continue"}] :
              program = TryProgram(par)
       \/ \E par \in [op : {"&&", "||"}, left : BOOLEAN,
                       right : {"literal", "effect", "increment", "error"}] :
              program = LogicProgram(par)
       \/ \E par \in [where : {"local", "global", "neither"}, val : 0..2, call : BOOLEAN] :
              program = ScopeProgram(par)
       \/ \E par \in UNION {[n : {c}, defs : SUBSET (1..c)] : c \in 1..MaxChain} :
              program = InheritProgram(par)
       \/ \E par \in [depth : 1..2, end : {"return", "raise", "missing"},
                       caught : {"no", "inner", "main"}] :
              program = StackProgram(par)
       \/ \E par \in [init : {"own", "parent", "none"}, calls : 1..2] :
              program = InitProgram(par)
       \/ \E par \in [cond : {"true", "false", "zero", "one", "empty", "str", "array"}] :
              program = CondProgram(par)
       \/ \E par \in [left : {"one", "two", "true", "false", "a", "b", "list"},
                       right : {"one", "two", "true", "false", "a", "b", "list"},
                       op : {"==", "!="}] :
              program = EqualProgram(par)
       \/ \E par \in [top : {<<>>, <<"">>, <<"a">>, <<"", "a">>, <<"a", "b">>, <<"a", "a">>},
                       where : {"none", "main", "method"}, alias : {"", "a"}] :
              /\ par.top # <<>> \/ par.where # "none"
              /\ par.where = "none" => par.alias = ""
              /\ program = ImportProgram(par)
       \/ \E par \in [body : {"alloc", "loop", "assign"}, room : {0, MaxCells}] :
              program = LimitProgram(par)
       \/ \E par \in [text : {"sum", "break", "continue", "increment", "return"},
                       sep : {"NEWLINE", "SEMICOLON"}] :
              program = SourceProgram(par)
       \/ \E par \in [path : UNION {[1..n -> {"a", ".."}] : n \in 0..MaxSegs},
                       present : BOOLEAN] :
              program = IncludeProgram(par)

\* interpreter.main: evaluator.run()
Run ==
    /\ epc = "ready"
    /\ outcome' = RunProgram
    /\ epc' = "done"
    /\ UNCHANGED <<program, sbVars>>

EvalSpec == EvInit /\ [][Run]_vars

(***************************************************************************)
(* The syntax validator's bracket check (ide/services/syntax_validator.py). *)
(* program.code is the text, a list of characters; outcome holds the stack  *)
(* of open brackets, the errors reported so far and the position of the     *)
(* character read next.                                                     *)
(***************************************************************************)
MaxCode == 4
\* brackets = {'(': ')', '[': ']', '{': '}'} matches everything to ')'.
ExpectedParen(open) == ")"
Expected(open) == CASE open = "(" -> ")" [] open = "[" -> "]" [] OTHER -> "}"

ValInit ==
    /\ SbOff
    /\ epc = "scan"
    /\ program \in [fam : {"brackets"},
                    code : UNION {[1..n -> {"(", ")", "[", "]", "{", "}", "x"}] : n \in 0..MaxCode}]
    /\ outcome = [stack |-> <<>>, errors |-> <<>>, pos |-> 1]

\* One turn of `for char in code`.
ScanChar ==
    /\ epc = "scan"
    /\ outcome.pos <= Len(program.code)
    /\ LET char == program.code[outcome.pos]
           stack == outcome.stack
           Error(kind) == [kind |-> kind, char |-> char, at |-> outcome.pos]
       IN outcome' =
            [pos |-> outcome.pos + 1,
             stack |->
                 IF char \in {"(", "[", "{"}
                 THEN Append(stack, [char |-> char, at |-> outcome.pos])
                 ELSE IF char \in {")", "]", "}"} /\ stack # <<>>
                      THEN SubSeq(stack, 1, Len(stack) - 1)
                 ELSE stack,
             errors |->
                 IF char \notin {")", "]", "}"} THEN outcome.errors
                 ELSE IF stack = <<>> THEN Append(outcome.errors, Error("extra"))
                 ELSE IF char # Expected(stack[Len(stack)].char)
                      THEN Append(outcome.errors, Error("mismatch"))
                 ELSE outcome.errors]
    /\ UNCHANGED <<epc, program, sbVars>>

\* After the loop: `for open_bracket, line, col in stack`.
CheckUnclosed ==
    /\ epc = "scan"
    /\ outcome.pos > Len(program.code)
    /\ outcome' = [outcome EXCEPT !.errors = @ \o
                      [i \in 1..Len(outcome.stack) |->
                          [kind |-> "unclosed", char |-> outcome.stack[i].char,
                           at |-> outcome.stack[i].at]]]
    /\ epc' = "done"
    /\ UNCHANGED <<program, sbVars>>

ValidateSpec == ValInit /\ [][ScanChar \/ CheckUnclosed]_vars

(***************************************************************************)
(* The lexer's indentation tracking (hpl_runtime/lexer.py, tokenize).       *)
(* program.text is the input, a list of lines; a line is its leading        *)
(* whitespace ws and what follows it: a token ("code"), a # comment,         *)
(* nothing ("blank") or a character no token starts with ("bad").  outcome  *)
(* holds the tokens emitted so far, indent_stack and the line read next.    *)
(***************************************************************************)
MaxLines == 3
LexInit ==
    /\ SbOff
    /\ epc = "lexing"
    /\ program \in [fam : {"lexer"},
                    text : UNION {[1..n -> [ws : {<<>>, <<" ">>, <<" ", " ">>, <<"\t">>},
                                            body : {"code", "comment", "blank", "bad"}]]
                                  : n \in 0..MaxLines}]
    /\ outcome = [tokens |-> <<>>, indent_stack |-> <<0>>, line |-> 1]

\* A lexer that pushes a level for every line and emits no INDENT for it.
LexLineNoPush ==
    /\ epc = "lexing"
    /\ outcome.line <= Len(program.text)
    /\ outcome' = [outcome EXCEPT
                      !.tokens = Append(@, [type |-> "IDENTIFIER", value |-> "x",
                                            line |-> outcome.line]),
                      !.indent_stack = Append(@, 0),
                      !.line = @ + 1]
    /\ UNCHANGED <<epc, program, sbVars>>
\* The turns of `while self.current_char is not None` that read one line:
\* the indentation branch, entered when the line starts with whitespace, and
\* the line's token, comment or newline.
LexLine ==
    /\ epc = "lexing"
    /\ outcome.line <= Len(program.text)
    /\ LET ln == program.text[outcome.line]
           indent == Cardinality({i \in DOMAIN ln.ws : ln.ws[i] = " "})
                     + 4 * Cardinality({i \in DOMAIN ln.ws : ln.ws[i] = "\t"})
           stack == outcome.indent_stack
           depth == Len(stack)
           \* where `while indent < self.indent_stack[-1]` stops popping
           keep == CHOOSE k \in 1..depth :
                      /\ stack[k] <= indent
                      /\ \A j \in (k + 1)..depth : stack[j] > indent
           measured == ln.ws # <<>> /\ ln.body # "blank"
           marks == IF ~measured THEN <<>>
                    ELSE IF indent > stack[depth]
                    THEN <<[type |-> "INDENT", value |-> indent, line |-> outcome.line]>>
                    ELSE [i \in 1..(depth - keep) |->
                            [type |-> "DEDENT", value |-> stack[depth - i],
                             line |-> outcome.line]]
           word == IF ln.body = "code"
                   THEN <<[type |-> "IDENTIFIER", value |-> "x", line |-> outcome.line]>>
                   ELSE <<>>
       IN /\ outcome' =
               [tokens |-> outcome.tokens \o marks \o word,
                indent_stack |-> IF ~measured THEN stack
                                 ELSE IF indent > stack[depth] THEN Append(stack, indent)
                                 ELSE SubSeq(stack, 1, keep),
                line |-> outcome.line + 1]
          /\ epc' = IF ln.body = "bad" THEN "raised" ELSE epc
    /\ UNCHANGED <<program, sbVars>>

\* After the loop: `while len(self.indent_stack) > 1` and the EOF token (on
\* the line after the last, the text ending with a newline).
LexEnd ==
    /\ epc = "lexing"
    /\ outcome.line > Len(program.text)
    /\ outcome' =
          [outcome EXCEPT
              !.tokens = @ \o [i \in 1..(Len(outcome.indent_stack) - 1) |->
                                  [type |-> "DEDENT", value |-> 0, line |-> outcome.line]]
                           \o <<[type |-> "EOF", value |-> "None", line |-> outcome.line]>>,
              !.indent_stack = SubSeq(@, 1, 1)]
    /\ epc' = "lexed"
    /\ UNCHANGED <<program, sbVars>>

LexSpec == LexInit /\ [][LexLine \/ LexEnd]_vars

(***************************************************************************)
(* The debug service's breakpoints (ide/services/debug_service.py).         *)
(* program.trace is the execution trace the debug interpreter returned, a   *)
(* list of the lines of the executed entries (0: an entry without a line);  *)
(* program.breakpoints gives for each line whether a breakpoint is set,     *)
(* whether it is enabled and what its condition is worth in the scope of    *)
(* the entry ("none": no condition); program.listener tells whether         *)
(* on_breakpoint_hit is set.  outcome holds the position in the trace, the  *)
(* hits reported, the calls of the listener and each hit_count.             *)
(***************************************************************************)
MaxTrace == 2
DbgInit ==
    /\ SbOff
    /\ epc = "debug"
    /\ program \in [fam : {"debug"},
                    trace : UNION {[1..n -> 0..2] : n \in 0..MaxTrace},
                    breakpoints : [1..2 -> [set : BOOLEAN, enabled : BOOLEAN,
                                            condition : {"none", "truthy", "falsy"}]],
                    listener : BOOLEAN]
    /\ \A l \in 1..2 : ~program.breakpoints[l].set =>
          program.breakpoints[l] = [set |-> FALSE, enabled |-> TRUE, condition |-> "none"]
    /\ outcome = [pos |-> 1, hits |-> <<>>, notified |-> <<>>,
                  hit_count |-> [l \in 1..2 |-> 0]]

\* check_breakpoint(line, variables): the branch for a condition evaluates
\* nothing (`try: pass`), whatever the condition and the variables are.
CheckBreakpoint(line, variables) ==
    IF line \notin 1..2 \/ ~program.breakpoints[line].set THEN FALSE
    ELSE IF ~program.breakpoints[line].enabled THEN FALSE
    ELSE IF program.breakpoints[line].condition # "none" /\ variables # "None"
    THEN TRUE
    ELSE TRUE

\* One turn of `for entry in self._trace_history` in debug_file, which calls
\* check_breakpoint(entry.line) without variables.
CheckHit ==
    /\ epc = "debug"
    /\ outcome.pos <= Len(program.trace)
    /\ LET line == program.trace[outcome.pos]
           hit == line # 0 /\ line \in 1..2 /\ program.breakpoints[line].set
                  /\ CheckBreakpoint(line, "None")
       IN outcome' =
            [pos |-> outcome.pos + 1,
             hits |-> IF hit THEN Append(outcome.hits, line) ELSE outcome.hits,
             notified |-> IF hit /\ program.listener
                          THEN Append(outcome.notified, line)
                          ELSE outcome.notified,
             hit_count |-> IF hit THEN [outcome.hit_count EXCEPT ![line] = @ + 1]
                           ELSE outcome.hit_count]
    /\ UNCHANGED <<epc, program, sbVars>>

DebugSpec == DbgInit /\ [][CheckHit]_vars

(***************************************************************************)
(* Streaming execution (ide/services/hpl_engine.py, execute_streaming).     *)
(* program.chunks is the number of non-empty writes the program makes to    *)
(* stdout and program.ends how evaluator.run() ends ("done": it returns,    *)
(* "error": it raises).  outcome holds the execution thread's position      *)
(* tpc, the generator's position cpc, output_queue, the messages the thread *)
(* has put (sent) and the messages the generator has yielded, heartbeats    *)
(* left out.                                                                *)
(***************************************************************************)
MaxChunks == 3
StrInit ==
    /\ SbOff
    /\ epc = "stream"
    /\ program \in [fam : {"stream"}, chunks : 0..MaxChunks, ends : {"done", "error"}]
    /\ outcome = [tpc |-> "run", cpc |-> "get", queue |-> <<>>, sent |-> <<>>,
                  yielded |-> <<>>]

\* The thread and the generator take steps of outcome only.
StrStep(next) ==
    /\ epc = "stream"
    /\ outcome' = next
    /\ UNCHANGED <<epc, program, sbVars>>

\* StreamingBuffer.write(data): the thread puts one chunk of output.
ThreadPut ==
    LET chunk == [type |-> "stdout", data |-> Len(outcome.sent) + 1]
    IN /\ outcome.tpc = "run"
       /\ Len(outcome.sent) < program.chunks
       /\ StrStep([outcome EXCEPT !.queue = Append(@, chunk), !.sent = Append(@, chunk)])

\* evaluator.run() has returned or raised: the thread puts `done` or the
\* error message and goes on to its finally.
ThreadEnd ==
    LET last == [type |-> program.ends, data |-> 0]
    IN /\ outcome.tpc = "run"
       /\ Len(outcome.sent) = program.chunks
       /\ StrStep([outcome EXCEPT !.queue = Append(@, last), !.sent = Append(@, last),
                                  !.tpc = "finally"])

\* The thread's target returns: is_alive() is False from here on.
ThreadExit ==
    /\ outcome.tpc = "finally"
    /\ StrStep([outcome EXCEPT !.tpc = "dead"])

\* output_queue.get(timeout=0.1) returns a message: `done` ends the loop,
\* anything else is yielded.
ConsumerGet ==
    /\ outcome.cpc = "get"
    /\ outcome.queue # <<>>
    /\ StrStep([outcome EXCEPT
                   !.queue = Tail(@),
                   !.yielded = IF Head(outcome.queue).type = "done" THEN @
                               ELSE Append(@, Head(outcome.queue)),
                   !.cpc = IF Head(outcome.queue).type = "done" THEN "join" ELSE "get"])

\* output_queue.get(timeout=0.1) runs out with the queue empty: queue.Empty.
ConsumerEmpty ==
    /\ outcome.cpc = "get"
    /\ outcome.queue = <<>>
    /\ StrStep([outcome EXCEPT !.cpc = "check"])

\* except queue.Empty: `if not thread.is_alive(): break`, else a heartbeat
\* is yielded and the loop goes on.
ConsumerCheck ==
    /\ outcome.cpc = "check"
    /\ StrStep([outcome EXCEPT !.cpc = IF outcome.tpc = "dead" THEN "join" ELSE "get"])

\* thread.join(timeout=1.0), after which the generator finishes.
ConsumerJoin ==
    /\ outcome.cpc = "join"
    /\ StrStep([outcome EXCEPT !.cpc = "finished"])

StreamSpec ==
    StrInit /\ [][ThreadPut \/ ThreadEnd \/ ThreadExit \/ ConsumerGet \/ ConsumerEmpty
                  \/ ConsumerCheck \/ ConsumerJoin]_vars

(***************************************************************************)
(* The parser's preprocessing of inline function bodies                     *)
(* (hpl_runtime/parser.py, preprocess_functions).  program.lines is the     *)
(* content split into lines; of a line the model keeps whether it matches   *)
(* the function pattern `name: (params) => ... {` and how many '{' and '}'  *)
(* it has.  outcome holds the index i of the line read next and the result: *)
(* plain lines and literal blocks, a block being the lines first..last it   *)
(* was collected from and brace_count as the collecting loop left it.       *)
(***************************************************************************)
PreInit ==
    /\ SbOff
    /\ epc = "preprocess"
    /\ program \in [fam : {"preprocess"},
                    lines : UNION {[1..n -> [func : BOOLEAN, open : 0..2, close : 0..2]]
                                   : n \in 1..MaxLines}]
    /\ \A k \in DOMAIN program.lines :
          program.lines[k].func => program.lines[k].open >= 1
    /\ outcome = [i |-> 1, result |-> <<>>]

\* One turn of `while i < len(lines)`: a function line is collected with the
\* lines after it while brace_count > 0 and lines are left; any other line
\* is copied.  After the last turn the joined result is returned.
PreLine ==
    /\ epc = "preprocess"
    /\ LET lines == program.lines
           i == outcome.i
           brace_count[k \in i..Len(lines)] ==
               (IF k = i THEN 0 ELSE brace_count[k - 1])
               + lines[k].open - lines[k].close
           \* the last line the collecting loop appends
           last == IF \E k \in i..Len(lines) : brace_count[k] <= 0
                   THEN CHOOSE k \in i..Len(lines) :
                           /\ brace_count[k] <= 0
                           /\ \A h \in i..(k - 1) : brace_count[h] > 0
                   ELSE Len(lines)
           piece == IF lines[i].func
                    THEN [kind |-> "block", first |-> i, last |-> last,
                          brace_count |-> brace_count[last]]
                    ELSE [kind |-> "line", first |-> i, last |-> i, brace_count |-> 0]
       IN /\ outcome' = [i |-> piece.last + 1, result |-> Append(outcome.result, piece)]
          /\ epc' = IF piece.last = Len(lines) THEN "returned" ELSE epc
    /\ UNCHANGED <<program, sbVars>>

PreSpec == PreInit /\ [][PreLine]_vars

\* What a finished run left behind.
Done(fam) == epc = "done" /\ program.fam = fam
Output == outcome.st.out
Locals == outcome.loc
Globals == outcome.st.glob
NoError == outcome.exc = NoExc

(***************************************************************************)
(* Properties of the sandbox runner (checked under Spec)                   *)
(***************************************************************************)
HostStep ==
    \/ Call \/ CopyIncludes \/ WriteSource \/ ExistsCheck \/ Start
    \/ JoinTimeout \/ Terminate \/ JoinGrace \/ Kill \/ JoinKill
    \/ TimeoutReturn \/ ReadResult \/ Except \/ ExceptJoin \/ Finally

Elapsed == now - startedAt
TimedOut == sigs # <<>> /\ sigs[1].why = "timeout"

C2_TimeoutState ==
    /\ hpc = "timeout_ret" =>
          /\ ~Alive
          /\ Len(sigs) \in {1, 2}
          /\ sigs[1].sig = "TERM"
          /\ Len(sigs) = 2 =>
                sigs[2].sig = "KILL" /\ sigs[2].at = sigs[1].at + TermGrace
    /\ hpc \in {"finally", "done"} /\ TimedOut =>
          result = Envelope(FALSE, "TimeoutError")

C2_TimeoutStep ==
    /\ hpc' = "terminate" /\ hpc # "terminate" =>
          Alive /\ Elapsed = T /\ sigs = <<>>
    /\ hpc' = "kill" /\ hpc # "kill" =>
          /\ Alive
          /\ Len(sigs) = 1
          /\ sigs[1].sig = "TERM"
          /\ now = sigs[1].at + TermGrace

C2_TimeoutProtocol == []C2_TimeoutState /\ [][C2_TimeoutStep]_vars

\* C2 witness: both the worker that dies on SIGTERM and the one that had to
\* be killed are seen (here: the one that had to be killed).
C2_Witness ==
    /\ hpc = "done"
    /\ TimedOut
    /\ Len(sigs) = 2
    /\ sigs[2].at = sigs[1].at + TermGrace
    /\ result.error_type = "TimeoutError"

\* C3: the temporary directory of an execution is gone when the host is
\* done, on every outcome.
C3_TempDirDeleted ==
    hpc = "done" => tempDir # "exists"

\* C3 witness: the directory was created and deleted on the way out of an
\* exception raised while copying includes or writing the source.
C3_Witness ==
    /\ hpc = "done"
    /\ tempDir = "deleted"
    /\ wpc = "unstarted"
    /\ entry = "execute_code"
    /\ result.kind = "raised"


(***************************************************************************)
(* Properties of the evaluator (checked under EvalSpec)                    *)
(***************************************************************************)

\* C4: an array index read a[i] or write a[i] = e with an integer i succeeds
\* iff 0 <= i < len(a) (the read yields the element, the write stores the
\* value); otherwise it raises IndexError with i in the message and the
\* array is left as it was.
C4_IndexInBounds ==
    Done("index") =>
        LET par == program.par
            shown == IntStr(par.idx)
            msg == outcome.exc.msg
        IN IF 0 <= par.idx /\ par.idx < par.len
           THEN /\ NoError
                /\ IF par.write
                   THEN /\ outcome.st.heap[1] =
                             [j \in 1..par.len |->
                                IF j = par.idx + 1 THEN IntV(99) ELSE IntV(9 + j)]
                        /\ Output = <<IntStr(99)>>
                   ELSE /\ Locals.x = IntV(10 + par.idx)
                        /\ Output = <<IntStr(10 + par.idx)>>
           ELSE /\ outcome.exc.etype = "IndexError"
                /\ \E k \in 1..Len(msg) :
                      /\ k + Len(shown) - 1 <= Len(msg)
                      /\ SubSeq(msg, k, k + Len(shown) - 1) = shown
                /\ outcome.st.heap[1] = [j \in 1..par.len |-> IntV(9 + j)]
                /\ Output = <<>>
C4_Witness ==
    /\ Done("index")
    /\ program.par = [len |-> 2, idx |-> 2, write |-> TRUE]
    /\ outcome.exc = Exc("IndexError", <<"Array index ", "2",
                                         " out of bounds (length: ", "2", ")">>)

\* C5: a return inside if/else, for, while, try/catch at any depth of a
\* method body ends that method call and nothing more: no later statement of
\* the method runs, and the caller (here a loop in main) goes on with the
\* returned value, or Null when the return has no value.
C5_ReturnUnwinds ==
    Done("return") =>
        LET shown == IF program.par.hasValue THEN <<"7">> ELSE <<"None">>
        IN /\ NoError
           /\ Output = <<shown, shown, <<"cont">>>>
           /\ Locals.x = IF program.par.hasValue THEN IntV(7) ELSE NullV
           /\ outcome.st.stack = <<>>
C5_Witness ==
    /\ Done("return")
    /\ program.par = [ctx |-> <<"while", "try">>, hasValue |-> TRUE]
    /\ Output = <<<<"7">>, <<"7">>, <<"cont">>>>

\* C6: a break ends, and a continue skips to the next iteration of, the
\* innermost loop around it, whatever if, else or try/catch statements lie
\* between the two; the statements after it in the loop body do not run and
\* the outer loop (of the same or of the calling activation) runs on.
C6_LoopControl ==
    Done("loop") =>
        /\ NoError
        /\ Output = IF program.par.stmt = "break"
                    THEN <<<<"pre">>, <<"out">>, <<"pre">>, <<"out">>>>
                    ELSE <<<<"pre">>, <<"pre">>, <<"out">>,
                           <<"pre">>, <<"pre">>, <<"out">>>>

\* C7: in try { A } catch (e) { B }, when A raises a language exception its
\* message is bound to e as a string and B runs; when A raises none, B does
\* not run (and e is not bound).
C7_TryCatch ==
    Done("try") =>
        IF program.par.a \in {"index", "undefined", "type", "modulo", "method", "callee"}
        THEN /\ NoError
             /\ "e" \in DOMAIN Locals
             /\ Locals.e.t = "str" /\ Locals.e.s # <<>>
             /\ \E k \in 1..Len(Output) : Output[k] = <<"b">>
        ELSE /\ "e" \notin DOMAIN Locals
             /\ \A k \in 1..Len(Output) : Output[k] # <<"b">>

\* C8: in a && b with a false, and in a || b with a true, b is not
\* evaluated: its side effects (output, an increment) and its errors do not
\* happen, and the value is that of a.
C8_ShortCircuit ==
    Done("logic") =>
        LET par == program.par
        IN ((par.op = "&&" /\ ~par.left) \/ (par.op = "||" /\ par.left)) =>
              /\ NoError
              /\ Locals.n = IntV(0)
              /\ Locals.r = BoolV(par.left)
              /\ Output = <<PyStr(BoolV(par.left), <<>>)>>

\* C9: an assignment to a name present in the local frame or in the global
\* table changes the binding where it is present; a name present in neither
\* becomes a new local.
C9_AssignScope ==
    Done("scope") =>
        LET par == program.par
            v == IntV(par.val)
            mine == IF par.call THEN {"r"} ELSE {"x", "y"} \cap {"x", ScopeName(par)}
        IN /\ NoError
           /\ DOMAIN Globals = {"o", "g"}
           /\ Globals.o = ObjV("o")
           /\ Globals.g = IF par.where = "global" THEN v ELSE ObjV("g")
           /\ DOMAIN Locals = mine
           /\ par.call => Locals.r = v
           /\ ~par.call => Locals.x = IF par.where = "local" THEN v ELSE IntV(9)
           /\ ~par.call /\ par.where = "neither" => Locals.y = v

\* C10: o.m() runs the m of o's own class if it defines one, otherwise that
\* of the nearest ancestor that does, however long the parent chain; when no
\* class of the chain defines m the call fails as method not found.
C10_MethodResolution ==
    Done("inherit") =>
        LET par == program.par
        IN IF par.defs = {}
           THEN /\ outcome.exc.etype = "ValueError"
                /\ outcome.exc.msg = <<"Method '", "m", "' not found in class '",
                                       ClassName(par.n), "'">>
           ELSE /\ NoError
                /\ Locals.r = IntV(CHOOSE i \in par.defs : \A j \in par.defs : j <= i)

\* C11: an object declared as o: K("5") keeps its arguments as
\* attributes['__init_args__'], and the first o.f() runs __init__ (own or
\* inherited) with them, once, before f; without an __init__ only f runs.
C11_ConstructorOnce ==
    Done("init") =>
        LET fs == [j \in 1..program.par.calls |-> <<"f">>]
        IN /\ NoError
           /\ program.objectArgs.o = <<"5">>
           /\ Output = IF program.par.init = "none" THEN fs
                       ELSE <<<<"init">>, <<"5">>>> \o fs

\* C12: an if whose condition is not a Bool (an Int, a String, an Array)
\* raises TypeError and runs neither branch; a Bool condition selects the
\* branch.
C12_IfNeedsBool ==
    Done("cond") =>
        IF program.par.cond \in {"true", "false"}
        THEN /\ NoError
             /\ Output = <<IF program.par.cond = "true" THEN <<"then">> ELSE <<"else">>>>
        ELSE /\ outcome.exc.etype = "TypeError"
             /\ Output = <<>>

\* C13: for operands of any type, == is true iff the operands have the same
\* type and the same value, and != is its negation.
C13_Equality ==
    Done("equal") =>
        /\ NoError
        /\ Locals.r = BoolV((program.par.left = program.par.right)
                            = (program.par.op = "=="))

\* C14: two imports of one module name in a program, under the same or
\* different aliases, yield the same module object: the module is loaded
\* once and every name it was imported under holds that one module.
C14_ImportIdempotent ==
    Done("import") =>
        /\ outcome.st.loaded = <<"m">>
        /\ \A n \in DOMAIN outcome.st.imported : outcome.st.imported[n] = ModV(1)
        /\ \A n \in DOMAIN Globals : Globals[n].t = "mod" => Globals[n] = ModV(1)
        /\ \A n \in DOMAIN Locals : Locals[n].t = "mod" => Locals[n] = ModV(1)
C14_Witness ==
    /\ Done("import")
    /\ program.par = [top |-> <<"a", "b">>, where |-> "main", alias |-> ""]
    /\ Globals.a = ModV(1) /\ Globals.b = ModV(1)
    /\ Locals.m = ModV(1) /\ Locals.r2 = ModV(1)

\* C15: an import m or import m as a, from the top-level imports list or
\* inside a function or method body, binds the module in the global scope
\* under its alias (the module name without one), so that a method called
\* later sees the name.
C15_ImportBindsGlobal ==
    Done("import") =>
        LET par == program.par
            Name(alias) == IF alias = "" THEN "m" ELSE alias
            names == {Name(par.top[j]) : j \in 1..Len(par.top)}
                     \cup {"m"}
                     \cup (IF par.where = "none" THEN {} ELSE {Name(par.alias)})
        IN /\ NoError
           /\ \A n \in names : n \in DOMAIN Globals /\ Globals[n] = ModV(1)
           /\ Locals.r2 = ModV(1) /\ Locals.r3 = ModV(1)


\* C16: try/catch does not capture a timeout or an exceeded memory limit:
\* when the try block runs out of memory or never ends (the worker is then
\* terminated), the catch block does not run and the run ends with that
\* error.
C16_LimitsNotCaught ==
    Done("limit") =>
        /\ program.par.body = "loop" =>
               outcome.exc = Diverges /\ Output = <<>>
        /\ program.par = [body |-> "alloc", room |-> 0] =>
               outcome.exc.etype = "MemoryError" /\ Output = <<>>

\* C17: a break or continue that is not inside any loop is a parse-time
\* error: the body is rejected by the parser and no statement of it runs.
C17_BreakOutsideLoop ==
    Done("source") /\ program.par.text \in {"break", "continue"}
                   /\ program.par.sep = "NEWLINE" =>
        program.syntax # NoExc /\ Output = <<>>

\* C18: statements separated by semicolons parse to the same statement
\* sequence as the same statements separated by line ends, and
\* x = 3 + 4 * 2; echo x  outputs 11.
C18_SemicolonSeparator ==
    Done("source") =>
        /\ LET Same(semi, line) ==
                   semi.syntax = NoExc /\ line.syntax = NoExc /\ semi.main = line.main
           IN Same(SourceProgram([program.par EXCEPT !.sep = "SEMICOLON"]),
                   SourceProgram([program.par EXCEPT !.sep = "NEWLINE"]))
        /\ program.par.text = "sum" => Output = <<IntStr(11)>>

\* C19: an include path with a .. segment is rejected: the file is neither
\* read and merged into the document nor copied into the execution
\* directory.
C19_DotDotRejected ==
    Done("include") /\ (\E n \in DOMAIN program.par.path : program.par.path[n] = "..") =>
        outcome.st.merged = {} /\ outcome.st.copied = {}

\* The characters of the code are well nested: the code is empty, or it
\* starts with a character that is no bracket and goes on well nested, or
\* it starts with an opening bracket whose closing bracket follows a
\* well-nested part and is followed by one.
RECURSIVE WellNested(_)
WellNested(code) ==
    \/ code = <<>>
    \/ /\ code # <<>>
       /\ code[1] \notin {"(", ")", "[", "]", "{", "}"}
       /\ WellNested(Tail(code))
    \/ /\ code # <<>>
       /\ \E pair \in {<<"(", ")">>, <<"[", "]">>, <<"{", "}">>} :
              /\ code[1] = pair[1]
              /\ \E k \in 2..Len(code) :
                     /\ code[k] = pair[2]
                     /\ WellNested(SubSeq(code, 2, k - 1))
                     /\ WellNested(SubSeq(code, k + 1, Len(code)))

\* C20: the validator reports a bracket error exactly when the brackets of
\* the code are not well nested; every error stands at a bracket of its
\* own (a closing bracket for an extra or mismatched one, an opening
\* bracket for an unclosed one), and the unclosed errors are as many as the
\* opening brackets that no closing bracket took up.
C20_BracketErrors ==
    Done("brackets") =>
        LET code == program.code
            errors == outcome.errors
            Count(set) == Cardinality({n \in DOMAIN code : code[n] \in set})
            Kind(kind) == Cardinality({i \in DOMAIN errors : errors[i].kind = kind})
        IN /\ (errors = <<>>) <=> WellNested(code)
           /\ \A i \in DOMAIN errors :
                  /\ errors[i].at \in DOMAIN code
                  /\ code[errors[i].at] = errors[i].char
                  /\ errors[i].char \in (IF errors[i].kind = "unclosed"
                                         THEN {"(", "[", "{"} ELSE {")", "]", "}"})
                  /\ \A j \in DOMAIN errors : errors[j].at = errors[i].at => j = i
           /\ Kind("unclosed") = Count({"(", "[", "{"}) - (Count({")", "]", "}"}) - Kind("extra"))
C20_Witness ==
    /\ Done("brackets")
    /\ program.code = <<")", "(", "]", "[">>
    /\ outcome.errors = <<[kind |-> "extra", char |-> ")", at |-> 1],
                          [kind |-> "mismatch", char |-> "]", at |-> 3],
                          [kind |-> "unclosed", char |-> "[", at |-> 4]>>

\* C21: on every path through the sandbox worker that its code handles (the
\* limits cannot be set, the file cannot be loaded, normal completion, a
\* language error, MemoryError, another exception) the worker puts exactly
\* one envelope on the result queue: never two, one once it is past
\* _execute_target's puts, and one when it has ended without a signal.
C21_OneEnvelope ==
    entry # "process_timeout" =>
        LET handled == prog.limitsFail \/ ~prog.loads \/ prog.run \notin {"crash", "loop"}
            read == hpc \in {"finally", "done"} /\ result.kind = "envelope"
                    /\ result.error_type \notin {"TimeoutError", "SandboxError", "OSError"}
        IN /\ Len(queue) <= 1
           /\ wpc = "flush" => Len(queue) = 1
           /\ wpc = "exited" /\ sigs = <<>> /\ handled => Len(queue) = 1 \/ read
C21_Witness ==
    /\ entry = "execute" /\ prog.run = "langerr" /\ prog.loads /\ ~prog.limitsFail
    /\ wpc = "exited" /\ sigs = <<>> /\ hpc = "read"
    /\ queue = <<Envelope(FALSE, "HPLRuntimeError")>>

\* C22: when the worker has put its envelope on the result queue before the
\* deadline of the host's join, the envelope gets to the host, whatever its
\* size: while the host waits in join(timeout) with the envelope on the queue
\* and the deadline not reached, the worker is able to end, so that the join
\* returns in time and the host reads the envelope instead of handing back
\* TimeoutError.
C22_ResultBeforeDeadline ==
    entry # "process_timeout" /\ hpc = "join_T" /\ now < deadline
    /\ queue # <<>> /\ wpc = "flush"
        => ENABLED WorkerExit

\* C23: in the sandbox worker the resource limits are set before user code
\* is loaded: the worker loads or runs the program only with the limits
\* set, and when setting them fails it never loads or runs it.
C23_LimitsBeforeLoad ==
    entry # "process_timeout" =>
        /\ wpc \in {"load", "run"} => limitsSet
        /\ prog.limitsFail => wpc \notin {"load", "run"} /\ ~limitsSet
C23_Witness ==
    entry = "execute" /\ wpc = "run" /\ limitsSet /\ ~prog.limitsFail

\* C24: when SandboxExecutor.execute has returned, on every path, the worker
\* process it started is no longer running.
C24_WorkerGoneOnReturn ==
    entry # "process_timeout" /\ hpc \in {"finally", "done"} => ~Alive

\* C25: a method call pushes "<object>.<method>()" on the call stack and pops
\* it when the body returns and when it raises: after the run the stack is
\* empty again whether the calls returned or raised, caught or not, and a
\* call of f, g or a missing method made with any frames already on the
\* stack leaves exactly those frames.
C25_CallStack ==
    Done("stack") =>
        /\ outcome.st.stack = <<>>
        /\ \A pre \in {<<>>, <<"main()">>, <<"main()", <<"o", ".", "f", "()">>>>} :
             \A m \in {"f", "g", "nope"} :
                CallMethod([InitialState EXCEPT !.stack = pre], EmptyScope,
                           ObjV("o"), m, <<>>).st.stack = pre
C25_Witness ==
    /\ Done("stack")
    /\ program.par = [depth |-> 2, end |-> "raise", caught |-> "main"]
    /\ Output = <<<<"c">>, <<"end">>>>
    /\ outcome.st.stack = <<>>

\* C26: at each line that holds a token the lexer compares the line's indent
\* with the top of indent_stack: on an increase it emits exactly one INDENT,
\* on a decrease (a return to column 0 included) it pops the stack and emits
\* one DEDENT per popped level at that line, otherwise neither; at the end of
\* the input it emits the remaining DEDENTs and then EOF.
C26_IndentTokens ==
    [][epc = "lexing" =>
         LET n == outcome.line
             stack == outcome.indent_stack
             top == stack[Len(stack)]
             new == [i \in 1..(Len(outcome'.tokens) - Len(outcome.tokens)) |->
                        outcome'.tokens[Len(outcome.tokens) + i].type]
             Times(type, k) == [i \in 1..k |-> type]
             popped == Len(stack) - Len(outcome'.indent_stack)
         IN IF n > Len(program.text)
            THEN new = Times("DEDENT", Len(stack) - 1) \o <<"EOF">>
            ELSE program.text[n].body = "code" =>
                   LET ws == program.text[n].ws
                       indent == Cardinality({i \in DOMAIN ws : ws[i] = " "})
                                 + 4 * Cardinality({i \in DOMAIN ws : ws[i] = "\t"})
                   IN /\ indent > top => new = <<"INDENT", "IDENTIFIER">>
                      /\ indent = top => new = <<"IDENTIFIER">>
                      /\ indent < top =>
                            /\ popped > 0
                            /\ new = Times("DEDENT", popped) \o <<"IDENTIFIER">>
                            /\ outcome'.indent_stack[Len(outcome'.indent_stack)] <= indent
    ]_vars

\* C27: while the lexer has not raised, no prefix of the token stream has
\* more DEDENTs than INDENTs and indent_stack is strictly increasing from 0;
\* when it returns, the stream has as many DEDENTs as INDENTs and EOF is its
\* last token and occurs nowhere else.
C27_IndentBalance ==
    program.fam = "lexer" =>
        LET toks == outcome.tokens
            stack == outcome.indent_stack
            Count(type, k) == Cardinality({i \in 1..k : toks[i].type = type})
        IN /\ \A k \in 0..Len(toks) : Count("DEDENT", k) <= Count("INDENT", k)
           /\ stack[1] = 0
           /\ \A i \in 1..(Len(stack) - 1) : stack[i] < stack[i + 1]
           /\ epc = "lexing" => \A i \in 1..Len(toks) : toks[i].type # "EOF"
           /\ epc = "lexed" =>
                 /\ Count("DEDENT", Len(toks)) = Count("INDENT", Len(toks))
                 /\ toks # <<>>
                 /\ \A i \in 1..Len(toks) : toks[i].type = "EOF" <=> i = Len(toks)
C27_Witness ==
    /\ epc = "lexed"
    /\ program.text = <<[ws |-> <<" ">>, body |-> "code"],
                        [ws |-> <<"\t">>, body |-> "code"],
                        [ws |-> <<" ", " ">>, body |-> "code"]>>
    /\ [i \in 1..Len(outcome.tokens) |-> outcome.tokens[i].type]
          = <<"INDENT", "IDENTIFIER", "INDENT", "IDENTIFIER", "DEDENT", "IDENTIFIER",
              "DEDENT", "EOF">>

\* C28: for the executed entries whose line has a breakpoint, a hit is
\* reported, and passed to the listener when one is set, exactly when the
\* breakpoint is enabled and has no condition or a condition that is truthy
\* in the entry's scope.
C28_BreakpointHits ==
    program.fam = "debug" =>
        LET Due(line) ==
                /\ line \in 1..2
                /\ program.breakpoints[line].set
                /\ program.breakpoints[line].enabled
                /\ program.breakpoints[line].condition \in {"none", "truthy"}
            due == SelectSeq(SubSeq(program.trace, 1, outcome.pos - 1), Due)
        IN /\ outcome.hits = due
           /\ outcome.notified = IF program.listener THEN due ELSE <<>>

\* C29: in streaming execution every output chunk and the error message the
\* execution thread puts on the output queue has been yielded when the
\* generator finishes, under every interleaving of the thread's puts and
\* exit with the generator's timed reads and is_alive checks.
C29_StreamComplete ==
    program.fam = "stream" /\ outcome.cpc = "finished" =>
        LET Shown(msg) == msg.type # "done"
        IN /\ Len(outcome.sent) = program.chunks + 1
           /\ outcome.yielded = SelectSeq(outcome.sent, Shown)

\* C30: preprocessing follows the brace nesting of a function body by
\* counting '{' and '}' on each following line, and when the input ends with
\* the nesting still positive it fails (SyntaxError "unterminated function
\* body") instead of returning.
C30_UnterminatedBody ==
    program.fam = "preprocess" =>
        /\ \A b \in DOMAIN outcome.result :
              LET e == outcome.result[b]
                  Nesting(k) == Cardinality({<<h, c>> \in (e.first..k) \X (1..2) :
                                                c <= program.lines[h].open})
                                - Cardinality({<<h, c>> \in (e.first..k) \X (1..2) :
                                                  c <= program.lines[h].close})
              IN e.kind = "block" =>
                    /\ e.brace_count = Nesting(e.last)
                    /\ \A k \in e.first..(e.last - 1) : Nesting(k) > 0
                    /\ Nesting(e.last) > 0 => e.last = Len(program.lines)
        /\ (\E b \in DOMAIN outcome.result : outcome.result[b].brace_count > 0)
              => epc # "returned"

====
